---- MODULE Spec2Model ----
(***************************************************************************)
(* Plugin resolution, compatibility verification, cache and task           *)
(* aggregation of the plugins package (loadPluginsTasks, resolvePlugins,   *)
(* verifyPluginCompatibility, verifySinglePluginCompatibility).            *)
(***************************************************************************)
EXTENDS Integers, Sequences, FiniteSets, TLC

(***************************************************************************)
(* Bounds of the model.                                                    *)
(***************************************************************************)
\* longest declaration list of one invocation
MaxDecls == 3
\* largest resolved set handed to the verifier by InitVerify
MaxPlugins == 3
\* longest declaration list of each of two concurrent invocations
MaxConcDecls == 1

Procs == {1, 2}
Groups == {1, 2}
Products == {1, 2}
Versions == {1, 2}
\* the task lists a plugin may report: names in declared order
TaskLists == {<<>>, <<1>>, <<2>>, <<2, 1>>, <<1, 1>>}

\* a nil error
Nil == [kind |-> "nil"]

(***************************************************************************)
(* Locators and their order.                                               *)
(***************************************************************************)
Locators == [Group : Groups, Product : Products, Version : Versions]

Loc(g, p, v) == [Group |-> g, Product |-> p, Version |-> v]

\* group, then product, then version
LocLess(a, b) ==
    \/ a.Group < b.Group
    \/ a.Group = b.Group /\ a.Product < b.Product
    \/ a.Group = b.Group /\ a.Product = b.Product /\ a.Version < b.Version

MinLoc(S) == CHOOSE a \in S : \A b \in S \ {a} : LocLess(a, b)

RECURSIVE SortLocators(_)
SortLocators(S) ==
    IF S = {} THEN <<>>
    ELSE LET m == MinLoc(S) IN <<m>> \o SortLocators(S \ {m})

Range(s) == {s[i] : i \in DOMAIN s}

RECURSIVE Insert(_, _)
Insert(x, s) ==
    IF s = <<>> THEN <<x>>
    ELSE IF x <= Head(s) THEN <<x>> \o s
    ELSE <<Head(s)>> \o Insert(x, Tail(s))

\* sort.Strings: ascending, duplicates kept
RECURSIVE SortStrings(_)
SortStrings(s) ==
    IF s = <<>> THEN <<>>
    ELSE Insert(Head(s), SortStrings(Tail(s)))

SeqsUpTo(S, n) == UNION {[1..k -> S] : k \in 0..n}

(***************************************************************************)
(* Plugin information.                                                     *)
(***************************************************************************)
\* pluginapi.PluginInfo as far as this package reads it: the task names in
\* declared order, UsesConfig() and whether UpgradeConfigTask() is non-nil
PluginInfos ==
    [Tasks : TaskLists, UsesConfig : BOOLEAN, Upgrade : BOOLEAN]

pluginInfoWithAssets(info, assets) == [PluginInfo |-> info, Assets |-> assets]

(***************************************************************************)
(* verifySinglePluginCompatibility and verifyPluginCompatibility.          *)
(***************************************************************************)
\* no entry of errs for the pair
NoConflict == [msg |-> "", tasks |-> <<>>]
DifferentVersion == [msg |-> "different version of the same plugin", tasks |-> <<>>]
SameNameConfig ==
    [msg |-> "plugins have the same product name and both use configuration", tasks |-> <<>>]
ConflictingTasks(common) == [msg |-> "provides conflicting tasks", tasks |-> common]

\* the names of currPluginTasks, sorted, that otherPluginTasks contains
RECURSIVE commonTasksOf(_, _)
commonTasksOf(currPluginTasks, otherPluginTasks) ==
    IF currPluginTasks = <<>> THEN <<>>
    ELSE IF Head(currPluginTasks) \in otherPluginTasks
         THEN <<Head(currPluginTasks)>> \o commonTasksOf(Tail(currPluginTasks), otherPluginTasks)
         ELSE commonTasksOf(Tail(currPluginTasks), otherPluginTasks)

\* the loop body without the check of group and product
pairConflict_NoVersionCheck(plugin, otherPlugin, plugins) ==
    IF /\ plugin.Product = otherPlugin.Product
       /\ plugins[plugin].PluginInfo.UsesConfig
       /\ plugins[otherPlugin].PluginInfo.UsesConfig
    THEN SameNameConfig
    ELSE LET currPluginTasks == SortStrings(plugins[plugin].PluginInfo.Tasks)
             otherPluginTasks == Range(plugins[otherPlugin].PluginInfo.Tasks)
             commonTasks == commonTasksOf(currPluginTasks, otherPluginTasks)
         IN IF Len(commonTasks) # 0 THEN ConflictingTasks(commonTasks) ELSE NoConflict

\* the loop body with the configuration check satisfied by one plugin using configuration
pairConflict_EitherConfig(plugin, otherPlugin, plugins) ==
    IF otherPlugin.Group = plugin.Group /\ otherPlugin.Product = plugin.Product
    THEN DifferentVersion
    ELSE IF /\ plugin.Product = otherPlugin.Product
            /\ \/ plugins[plugin].PluginInfo.UsesConfig
               \/ plugins[otherPlugin].PluginInfo.UsesConfig
    THEN SameNameConfig
    ELSE LET currPluginTasks == SortStrings(plugins[plugin].PluginInfo.Tasks)
             otherPluginTasks == Range(plugins[otherPlugin].PluginInfo.Tasks)
             commonTasks == commonTasksOf(currPluginTasks, otherPluginTasks)
         IN IF Len(commonTasks) # 0 THEN ConflictingTasks(commonTasks) ELSE NoConflict

\* the loop body without the sort of currPluginTasks
pairConflict_Unsorted(plugin, otherPlugin, plugins) ==
    IF otherPlugin.Group = plugin.Group /\ otherPlugin.Product = plugin.Product
    THEN DifferentVersion
    ELSE IF /\ plugin.Product = otherPlugin.Product
            /\ plugins[plugin].PluginInfo.UsesConfig
            /\ plugins[otherPlugin].PluginInfo.UsesConfig
    THEN SameNameConfig
    ELSE LET currPluginTasks == plugins[plugin].PluginInfo.Tasks
             otherPluginTasks == Range(plugins[otherPlugin].PluginInfo.Tasks)
             commonTasks == commonTasksOf(currPluginTasks, otherPluginTasks)
         IN IF Len(commonTasks) # 0 THEN ConflictingTasks(commonTasks) ELSE NoConflict

\* the loop body with the task names compared before group, product and configuration
pairConflict_TasksFirst(plugin, otherPlugin, plugins) ==
    LET currPluginTasks == SortStrings(plugins[plugin].PluginInfo.Tasks)
        otherPluginTasks == Range(plugins[otherPlugin].PluginInfo.Tasks)
        commonTasks == commonTasksOf(currPluginTasks, otherPluginTasks)
    IN IF Len(commonTasks) # 0 THEN ConflictingTasks(commonTasks)
       ELSE IF otherPlugin.Group = plugin.Group /\ otherPlugin.Product = plugin.Product
       THEN DifferentVersion
       ELSE IF /\ plugin.Product = otherPlugin.Product
               /\ plugins[plugin].PluginInfo.UsesConfig
               /\ plugins[otherPlugin].PluginInfo.UsesConfig
       THEN SameNameConfig
       ELSE NoConflict

\* one iteration of the loop over otherPlugin: the error stored in errs, if any
pairConflict(plugin, otherPlugin, plugins) ==
    IF otherPlugin.Group = plugin.Group /\ otherPlugin.Product = plugin.Product
    THEN DifferentVersion
    ELSE IF /\ plugin.Product = otherPlugin.Product
            /\ plugins[plugin].PluginInfo.UsesConfig
            /\ plugins[otherPlugin].PluginInfo.UsesConfig
    THEN SameNameConfig
    ELSE LET currPluginTasks == SortStrings(plugins[plugin].PluginInfo.Tasks)
             otherPluginTasks == Range(plugins[otherPlugin].PluginInfo.Tasks)
             commonTasks == commonTasksOf(currPluginTasks, otherPluginTasks)
         IN IF Len(commonTasks) # 0 THEN ConflictingTasks(commonTasks) ELSE NoConflict

\* a loop that skips the other plugins whose locator sorts before the plugin's
verifySinglePluginCompatibility_LaterOnly(plugin, plugins) ==
    LET others == {o \in DOMAIN plugins \ {plugin} :
                      LocLess(plugin, o) /\ pairConflict(plugin, o, plugins) # NoConflict}
    IN [o \in others |-> pairConflict(plugin, o, plugins)]

\* the errs map: the error of every other plugin that conflicts with the plugin
verifySinglePluginCompatibility(plugin, plugins) ==
    LET others == {o \in DOMAIN plugins \ {plugin} : pairConflict(plugin, o, plugins) # NoConflict}
    IN [o \in others |-> pairConflict(plugin, o, plugins)]

\* a conflicts map that stops at the first plugin found in conflict
conflictsOf_FirstOnly(plugins) ==
    LET keys == {k \in DOMAIN plugins :
                    DOMAIN verifySinglePluginCompatibility(k, plugins) # {}}
        first == IF keys = {} THEN {} ELSE {MinLoc(keys)}
    IN [k \in first |-> verifySinglePluginCompatibility(k, plugins)]

\* the conflicts map of verifyPluginCompatibility
conflictsOf(plugins) ==
    LET keys == {k \in DOMAIN plugins :
                    DOMAIN verifySinglePluginCompatibility(k, plugins) # {}}
    IN [k \in keys |-> verifySinglePluginCompatibility(k, plugins)]

\* the lines of errString after the header: per outer key, sorted, its own line
\* and then the error of every inner key, sorted
conflictLines(conflicts) ==
    LET sortedOuterKeys == SortLocators(DOMAIN conflicts)
    IN [i \in DOMAIN sortedOuterKeys |->
          LET k == sortedOuterKeys[i]
              sortedInnerKeys == SortLocators(DOMAIN conflicts[k])
          IN [loc |-> k,
              errs |-> [j \in DOMAIN sortedInnerKeys |-> conflicts[k][sortedInnerKeys[j]]]]]

verifyPluginCompatibility(plugins) ==
    LET conflicts == conflictsOf(plugins)
    IN IF DOMAIN conflicts = {} THEN Nil
       ELSE [kind |-> "compatibility",
             count |-> Cardinality(DOMAIN conflicts),
             conflicts |-> conflicts,
             lines |-> conflictLines(conflicts)]

(***************************************************************************)
(* Declarations, the plugin binaries and the cache codec.                  *)
(***************************************************************************)
L1 == Loc(1, 1, 1)
L2 == Loc(1, 1, 2)
L3 == Loc(2, 2, 1)
\* the asset the declarations name
A1 == Loc(2, 1, 1)

\* godellauncher.SinglePluginParam as far as resolution reads it: the locator,
\* whether a checksum is declared for the current OS/architecture, the assets, the
\* custom resolver ("" if none)
Declarations ==
    { [Locator |-> L1, Checksum |-> TRUE, Assets |-> <<>>, Resolver |-> "custom"],
      [Locator |-> L2, Checksum |-> FALSE, Assets |-> <<A1>>, Resolver |-> ""],
      [Locator |-> L3, Checksum |-> TRUE, Assets |-> <<A1>>, Resolver |-> ""] }

\* pluginsParam.DefaultResolvers, in their order
DefaultResolvers == <<"default1", "default2">>

\* what the info command of the executable at a locator prints
PluginBinaryInfo(loc) ==
    [Tasks |-> IF loc.Product = 1 THEN <<1>> ELSE <<2, 1>>,
     UsesConfig |-> loc.Group = 1,
     Upgrade |-> loc.Group = 1]

\* InfoFromPlugin on a resolved executable
InfoFromPlugin(loc) == PluginBinaryInfo(loc)

\* the encoded form of a resolved set: its entries in locator order
marshalPluginsInfoJSON(plugins) ==
    LET keys == SortLocators(DOMAIN plugins)
    IN [wellFormed |-> TRUE,
        entries |-> [i \in DOMAIN keys |->
                        [Locator |-> keys[i],
                         PluginInfo |-> plugins[keys[i]].PluginInfo,
                         Assets |-> plugins[keys[i]].Assets]]]

\* the resolved set a well-formed encoding stands for
unmarshalPluginsInfoJSON(bytes) ==
    LET e == bytes.entries
    IN [k \in {e[i].Locator : i \in DOMAIN e} |->
          LET i == CHOOSE j \in DOMAIN e : e[j].Locator = k
          IN pluginInfoWithAssets(e[i].PluginInfo, e[i].Assets)]

NoBytes == [wellFormed |-> FALSE, entries |-> <<>>]
AbsentFile == [state |-> "absent", bytes |-> NoBytes]
UnreadableFile == [state |-> "unreadable", bytes |-> NoBytes]
CorruptFile == [state |-> "present", bytes |-> NoBytes]
ValidFile(plugins) == [state |-> "present", bytes |-> marshalPluginsInfoJSON(plugins)]

\* the empty map
EmptyMap == [k \in {} |-> Nil]

(***************************************************************************)
(* State.                                                                  *)
(***************************************************************************)
VARIABLES
    pc,            \* where each invocation of loadPluginsTasks stands
    pluginsParam,  \* its pluginsParam.Plugins
    cachePath,     \* its cachePath: "" or the path of the cache file
    plugins,       \* its plugins map (empty while nil)
    pluginErrors,  \* pluginErrors of its resolvePlugins
    idx,           \* position of currPlugin in pluginsParam.Plugins
    info,          \* info of the current declaration
    result,        \* what it returned: tasks, upgradeConfigTasks, err
    lockHolder,    \* holder of godel-resolver.lock, 0 if free
    pluginsDir,    \* locators whose executable exists in the plugins directory
    assetsDir,     \* locators whose file exists in the assets directory
    downloadsDir,  \* locators whose archive exists in the downloads directory
    cacheFile,     \* the file at the cache path
    did,           \* history: the steps each invocation performed
    attempted,     \* history: the locators each invocation attempted, in order
    outcomes,      \* history: how each attempted declaration ended
    tried,         \* history: the resolvers tried for the declaration attempted last
    files,                   \* the files of the project directory: path -> content
    projectCfg,              \* the license plugin's configuration: its excludes
    godelConfigFileFlagVal,  \* the godel configuration file given to the plugin, "" if none
    verifyFlagVal,           \* --verify
    removeFlagVal,           \* --remove
    exit                     \* how the run command of the license plugin ended

\* the state of the plugin loader
loaderVars == <<pc, pluginsParam, cachePath, plugins, pluginErrors, idx, info, result,
                lockHolder, pluginsDir, assetsDir, downloadsDir, cacheFile, did, attempted,
                outcomes, tried>>

\* the state of the license plugin's run command
licenseVars == <<files, projectCfg, godelConfigFileFlagVal, verifyFlagVal, removeFlagVal, exit>>

vars == <<loaderVars, licenseVars>>

NoInfo == [Tasks |-> <<>>, UsesConfig |-> FALSE, Upgrade |-> FALSE]
NoResult == [tasks |-> <<>>, upgradeConfigTasks |-> <<>>, err |-> Nil]
Failed(err) == [tasks |-> <<>>, upgradeConfigTasks |-> <<>>, err |-> err]

currPlugin(p) == pluginsParam[p][idx[p]]

(***************************************************************************)
(* loadPluginsTasks: the cache read path.                                  *)
(***************************************************************************)
\* a read path that takes a cache file that does not decode for a missing one
ReadCache_SilentFallback(p) ==
    /\ pc[p] = "start"
    /\ IF cachePath[p] = "" \/ cacheFile.state = "absent"
       THEN /\ pc' = [pc EXCEPT ![p] = "lock"]
            /\ UNCHANGED <<plugins, result>>
            /\ did' = [did EXCEPT ![p] = @ \cup {"miss"}]
       ELSE IF cacheFile.state = "unreadable"
       THEN /\ pc' = [pc EXCEPT ![p] = "done"]
            /\ result' = [result EXCEPT ![p] = Failed([kind |-> "read"])]
            /\ UNCHANGED <<plugins, did>>
       ELSE IF ~cacheFile.bytes.wellFormed
       THEN /\ pc' = [pc EXCEPT ![p] = "lock"]
            /\ UNCHANGED <<plugins, result>>
            /\ did' = [did EXCEPT ![p] = @ \cup {"miss"}]
       ELSE /\ plugins' = [plugins EXCEPT ![p] = unmarshalPluginsInfoJSON(cacheFile.bytes)]
            /\ pc' = [pc EXCEPT ![p] = "aggregate"]
            /\ did' = [did EXCEPT ![p] = @ \cup {"hit"}]
            /\ UNCHANGED result
    /\ UNCHANGED <<pluginsParam, cachePath, pluginErrors, idx, info, lockHolder,
                   pluginsDir, assetsDir, downloadsDir, cacheFile, attempted, outcomes>>
    /\ UNCHANGED <<tried, licenseVars>>

\* a read path that hands the decoded set to the compatibility verification
ReadCache_VerifyHit(p) ==
    /\ pc[p] = "start"
    /\ IF cachePath[p] = "" \/ cacheFile.state = "absent"
       THEN /\ pc' = [pc EXCEPT ![p] = "lock"]
            /\ UNCHANGED <<plugins, result>>
            /\ did' = [did EXCEPT ![p] = @ \cup {"miss"}]
       ELSE IF cacheFile.state = "unreadable"
       THEN /\ pc' = [pc EXCEPT ![p] = "done"]
            /\ result' = [result EXCEPT ![p] = Failed([kind |-> "read"])]
            /\ UNCHANGED <<plugins, did>>
       ELSE IF ~cacheFile.bytes.wellFormed
       THEN /\ pc' = [pc EXCEPT ![p] = "done"]
            /\ result' = [result EXCEPT ![p] = Failed([kind |-> "unmarshal"])]
            /\ UNCHANGED <<plugins, did>>
       ELSE /\ plugins' = [plugins EXCEPT ![p] = unmarshalPluginsInfoJSON(cacheFile.bytes)]
            /\ pc' = [pc EXCEPT ![p] = "verify"]
            /\ did' = [did EXCEPT ![p] = @ \cup {"hit"}]
            /\ UNCHANGED result
    /\ UNCHANGED <<pluginsParam, cachePath, pluginErrors, idx, info, lockHolder,
                   pluginsDir, assetsDir, downloadsDir, cacheFile, attempted, outcomes>>
    /\ UNCHANGED <<tried, licenseVars>>

\* a cache read that keeps the cached plugins of the declared locators only
ReadCache_DeclaredOnly(p) ==
    /\ pc[p] = "start"
    /\ IF cachePath[p] = "" \/ cacheFile.state = "absent"
       THEN /\ pc' = [pc EXCEPT ![p] = "lock"]
            /\ UNCHANGED <<plugins, result>>
            /\ did' = [did EXCEPT ![p] = @ \cup {"miss"}]
       ELSE IF cacheFile.state = "unreadable"
       THEN /\ pc' = [pc EXCEPT ![p] = "done"]
            /\ result' = [result EXCEPT ![p] = Failed([kind |-> "read"])]
            /\ UNCHANGED <<plugins, did>>
       ELSE IF ~cacheFile.bytes.wellFormed
       THEN /\ pc' = [pc EXCEPT ![p] = "done"]
            /\ result' = [result EXCEPT ![p] = Failed([kind |-> "unmarshal"])]
            /\ UNCHANGED <<plugins, did>>
       ELSE /\ plugins' = [plugins EXCEPT ![p] =
                  LET cached == unmarshalPluginsInfoJSON(cacheFile.bytes)
                      declared == {pluginsParam[p][i].Locator : i \in DOMAIN pluginsParam[p]}
                  IN [k \in DOMAIN cached \cap declared |-> cached[k]]]
            /\ pc' = [pc EXCEPT ![p] = "aggregate"]
            /\ did' = [did EXCEPT ![p] = @ \cup {"hit"}]
            /\ UNCHANGED result
    /\ UNCHANGED <<pluginsParam, cachePath, pluginErrors, idx, info, lockHolder,
                   pluginsDir, assetsDir, downloadsDir, cacheFile, attempted, outcomes>>
    /\ UNCHANGED <<tried, licenseVars>>

\* the read of the cache file, its decoding and the test plugins == nil
ReadCache(p) ==
    /\ pc[p] = "start"
    /\ IF cachePath[p] = "" \/ cacheFile.state = "absent"
       THEN /\ pc' = [pc EXCEPT ![p] = "lock"]
            /\ UNCHANGED <<plugins, result>>
            /\ did' = [did EXCEPT ![p] = @ \cup {"miss"}]
       ELSE IF cacheFile.state = "unreadable"
       THEN /\ pc' = [pc EXCEPT ![p] = "done"]
            /\ result' = [result EXCEPT ![p] = Failed([kind |-> "read"])]
            /\ UNCHANGED <<plugins, did>>
       ELSE IF ~cacheFile.bytes.wellFormed
       THEN /\ pc' = [pc EXCEPT ![p] = "done"]
            /\ result' = [result EXCEPT ![p] = Failed([kind |-> "unmarshal"])]
            /\ UNCHANGED <<plugins, did>>
       ELSE /\ plugins' = [plugins EXCEPT ![p] = unmarshalPluginsInfoJSON(cacheFile.bytes)]
            /\ pc' = [pc EXCEPT ![p] = "aggregate"]
            /\ did' = [did EXCEPT ![p] = @ \cup {"hit"}]
            /\ UNCHANGED result
    /\ UNCHANGED <<pluginsParam, cachePath, pluginErrors, idx, info, lockHolder,
                   pluginsDir, assetsDir, downloadsDir, cacheFile, attempted, outcomes>>
    /\ UNCHANGED <<tried, licenseVars>>

(***************************************************************************)
(* resolvePlugins.                                                         *)
(***************************************************************************)
\* the loop moves on to the next declaration, or ends
Advance(p) ==
    /\ idx' = [idx EXCEPT ![p] = @ + 1]
    /\ pc' = [pc EXCEPT ![p] =
                 IF idx[p] + 1 <= Len(pluginsParam[p]) THEN "resolve" ELSE "return"]

\* a lock error that is recorded while resolution goes on without the lock
LockFail_GoesOn(p) ==
    /\ pc[p] = "lock"
    /\ pc' = [pc EXCEPT ![p] = IF Len(pluginsParam[p]) >= 1 THEN "resolve" ELSE "return"]
    /\ result' = [result EXCEPT ![p] = Failed([kind |-> "lock"])]
    /\ UNCHANGED <<pluginsParam, cachePath, plugins, pluginErrors, idx, info, lockHolder,
                   pluginsDir, assetsDir, downloadsDir, cacheFile, did, attempted, outcomes>>
    /\ UNCHANGED <<tried, licenseVars>>

\* pluginResolverLock.Lock() returns an error
LockFail(p) ==
    /\ pc[p] = "lock"
    /\ pc' = [pc EXCEPT ![p] = "done"]
    /\ result' = [result EXCEPT ![p] = Failed([kind |-> "lock"])]
    /\ UNCHANGED <<pluginsParam, cachePath, plugins, pluginErrors, idx, info, lockHolder,
                   pluginsDir, assetsDir, downloadsDir, cacheFile, did, attempted, outcomes>>
    /\ UNCHANGED <<tried, licenseVars>>

\* a Lock() that does not wait for the holder to release
Lock_NoWait(p) ==
    /\ pc[p] = "lock"
    /\ lockHolder' = p
    /\ plugins' = [plugins EXCEPT ![p] = EmptyMap]
    /\ pluginErrors' = [pluginErrors EXCEPT ![p] = EmptyMap]
    /\ idx' = [idx EXCEPT ![p] = 1]
    /\ pc' = [pc EXCEPT ![p] = IF Len(pluginsParam[p]) >= 1 THEN "resolve" ELSE "return"]
    /\ did' = [did EXCEPT ![p] = @ \cup {"lock"}]
    /\ UNCHANGED <<pluginsParam, cachePath, info, result,
                   pluginsDir, assetsDir, downloadsDir, cacheFile, attempted, outcomes>>
    /\ UNCHANGED <<tried, licenseVars>>

\* a try-lock: with the lock held by another the resolution is skipped
Lock_TryLock(p) ==
    /\ pc[p] = "lock"
    /\ lockHolder' = IF lockHolder = 0 THEN p ELSE lockHolder
    /\ plugins' = [plugins EXCEPT ![p] = EmptyMap]
    /\ pluginErrors' = [pluginErrors EXCEPT ![p] = EmptyMap]
    /\ idx' = [idx EXCEPT ![p] = 1]
    /\ pc' = [pc EXCEPT ![p] = IF lockHolder # 0 THEN "verify"
                               ELSE IF Len(pluginsParam[p]) >= 1 THEN "resolve" ELSE "return"]
    /\ did' = [did EXCEPT ![p] = IF lockHolder = 0 THEN @ \cup {"lock"} ELSE @]
    /\ UNCHANGED <<pluginsParam, cachePath, info, result,
                   pluginsDir, assetsDir, downloadsDir, cacheFile, attempted, outcomes>>
    /\ UNCHANGED <<tried, licenseVars>>

\* pluginResolverLock.Lock() returns once no one else holds the lock
Lock(p) ==
    /\ pc[p] = "lock"
    /\ lockHolder = 0
    /\ lockHolder' = p
    /\ plugins' = [plugins EXCEPT ![p] = EmptyMap]
    /\ pluginErrors' = [pluginErrors EXCEPT ![p] = EmptyMap]
    /\ idx' = [idx EXCEPT ![p] = 1]
    /\ pc' = [pc EXCEPT ![p] = IF Len(pluginsParam[p]) >= 1 THEN "resolve" ELSE "return"]
    /\ did' = [did EXCEPT ![p] = @ \cup {"lock"}]
    /\ UNCHANGED <<pluginsParam, cachePath, info, result,
                   pluginsDir, assetsDir, downloadsDir, cacheFile, attempted, outcomes>>
    /\ UNCHANGED <<tried, licenseVars>>

\* a failure that ends the loop instead of moving on to the next declaration
Fail_Abort(p, loc, kind) ==
    /\ pluginErrors' = [pluginErrors EXCEPT ![p] =
          [k \in DOMAIN @ \cup {loc} |-> IF k = loc THEN [kind |-> kind, loc |-> loc] ELSE @[k]]]
    /\ outcomes' = [outcomes EXCEPT ![p] = Append(@, kind)]
    /\ idx' = [idx EXCEPT ![p] = @ + 1]
    /\ pc' = [pc EXCEPT ![p] = "return"]

\* the error of the current declaration goes into pluginErrors and the loop continues
Fail(p, loc, kind) ==
    /\ pluginErrors' = [pluginErrors EXCEPT ![p] =
          [k \in DOMAIN @ \cup {loc} |-> IF k = loc THEN [kind |-> kind, loc |-> loc] ELSE @[k]]]
    /\ outcomes' = [outcomes EXCEPT ![p] = Append(@, kind)]
    /\ Advance(p)

\* the resolvers tried when the one at position first is the first to succeed (0: none
\* does): those before it fail, those after it are not tried
TryResolvers(resolvers, first) ==
    [i \in 1..(IF first = 0 THEN Len(resolvers) ELSE first) |->
        [resolver |-> resolvers[i], ok |-> i = first]]

\* a resolution that falls back to the default resolvers after the custom resolver
ResolveStep_CustomThenDefaults(p) ==
    /\ pc[p] = "resolve"
    /\ LET loc == currPlugin(p).Locator
           resolvers == IF currPlugin(p).Resolver # ""
                        THEN <<currPlugin(p).Resolver>> \o DefaultResolvers
                        ELSE DefaultResolvers
       IN
       /\ attempted' = [attempted EXCEPT ![p] = Append(@, loc)]
       /\ IF loc \in pluginsDir
          THEN /\ pc' = [pc EXCEPT ![p] = "checksum"]
               /\ tried' = [tried EXCEPT ![p] = <<>>]
               /\ UNCHANGED <<pluginErrors, idx, pluginsDir, downloadsDir, did, outcomes>>
          ELSE /\ did' = [did EXCEPT ![p] = @ \cup {"resolver"}]
               /\ \E first \in 0..Len(resolvers) :
                    /\ tried' = [tried EXCEPT ![p] = TryResolvers(resolvers, first)]
                    /\ IF first = 0
                       THEN /\ Fail(p, loc, "resolve")
                            /\ UNCHANGED <<pluginsDir, downloadsDir>>
                       ELSE \E outcome \in {"ok", "badArchive"} :
                              CASE outcome = "ok" ->
                                     /\ downloadsDir' = downloadsDir \cup {loc}
                                     /\ pluginsDir' = pluginsDir \cup {loc}
                                     /\ pc' = [pc EXCEPT ![p] = "checksum"]
                                     /\ UNCHANGED <<pluginErrors, idx, outcomes>>
                                [] outcome = "badArchive" ->
                                     /\ downloadsDir' = downloadsDir \cup {loc}
                                     /\ Fail(p, loc, "unpack")
                                     /\ UNCHANGED pluginsDir
    /\ UNCHANGED <<pluginsParam, cachePath, plugins, info, result, lockHolder,
                   assetsDir, cacheFile>>
    /\ UNCHANGED licenseVars

\* ResolveAndVerify, first half: resolve the archive and unpack it unless the
\* executable is there already
ResolveStep(p) ==
    /\ pc[p] = "resolve"
    /\ LET loc == currPlugin(p).Locator
           resolvers == IF currPlugin(p).Resolver # ""
                        THEN <<currPlugin(p).Resolver>>
                        ELSE DefaultResolvers
       IN
       /\ attempted' = [attempted EXCEPT ![p] = Append(@, loc)]
       /\ IF loc \in pluginsDir
          THEN /\ pc' = [pc EXCEPT ![p] = "checksum"]
               /\ tried' = [tried EXCEPT ![p] = <<>>]
               /\ UNCHANGED <<pluginErrors, idx, pluginsDir, downloadsDir, did, outcomes>>
          ELSE /\ did' = [did EXCEPT ![p] = @ \cup {"resolver"}]
               /\ \E first \in 0..Len(resolvers) :
                    /\ tried' = [tried EXCEPT ![p] = TryResolvers(resolvers, first)]
                    /\ IF first = 0
                       THEN /\ Fail(p, loc, "resolve")
                            /\ UNCHANGED <<pluginsDir, downloadsDir>>
                       ELSE \E outcome \in {"ok", "badArchive"} :
                              CASE outcome = "ok" ->
                                     /\ downloadsDir' = downloadsDir \cup {loc}
                                     /\ pluginsDir' = pluginsDir \cup {loc}
                                     /\ pc' = [pc EXCEPT ![p] = "checksum"]
                                     /\ UNCHANGED <<pluginErrors, idx, outcomes>>
                                [] outcome = "badArchive" ->
                                     /\ downloadsDir' = downloadsDir \cup {loc}
                                     /\ Fail(p, loc, "unpack")
                                     /\ UNCHANGED pluginsDir
    /\ UNCHANGED <<pluginsParam, cachePath, plugins, info, result, lockHolder,
                   assetsDir, cacheFile>>
    /\ UNCHANGED licenseVars

\* ResolveAndVerify, second half: the checksum of the executable, if one is declared
ChecksumStep(p) ==
    /\ pc[p] = "checksum"
    /\ LET loc == currPlugin(p).Locator IN
       IF ~currPlugin(p).Checksum
       THEN /\ pc' = [pc EXCEPT ![p] = "info"]
            /\ UNCHANGED <<pluginErrors, idx, outcomes>>
       ELSE \E matches \in BOOLEAN :
              IF matches
              THEN /\ pc' = [pc EXCEPT ![p] = "info"]
                   /\ UNCHANGED <<pluginErrors, idx, outcomes>>
              ELSE Fail(p, loc, "checksum")
    /\ UNCHANGED <<pluginsParam, cachePath, plugins, info, result, lockHolder,
                   pluginsDir, assetsDir, downloadsDir, cacheFile, did, attempted>>
    /\ UNCHANGED <<tried, licenseVars>>

\* an info step that queries only an executable resolved in this very call
InfoStep_OnlyAfterResolve(p) ==
    /\ pc[p] = "info"
    /\ did' = [did EXCEPT ![p] = @ \cup {"info"}]
    /\ LET loc == currPlugin(p).Locator IN
       \E ok \in BOOLEAN :
         IF ok
         THEN /\ info' = [info EXCEPT ![p] =
                        IF "resolver" \in did[p] THEN InfoFromPlugin(loc) ELSE NoInfo]
              /\ pc' = [pc EXCEPT ![p] = "assets"]
              /\ UNCHANGED <<pluginErrors, idx, outcomes>>
         ELSE /\ Fail(p, loc, "info")
              /\ UNCHANGED info
    /\ UNCHANGED <<pluginsParam, cachePath, plugins, result, lockHolder,
                   pluginsDir, assetsDir, downloadsDir, cacheFile, attempted>>
    /\ UNCHANGED <<tried, licenseVars>>

\* an info step whose error is dropped: the loop body goes on to the assets
InfoStep_ErrorIgnored(p) ==
    /\ pc[p] = "info"
    /\ did' = [did EXCEPT ![p] = @ \cup {"info"}]
    /\ LET loc == currPlugin(p).Locator IN
       \E ok \in BOOLEAN :
         /\ info' = [info EXCEPT ![p] = IF ok THEN InfoFromPlugin(loc) ELSE NoInfo]
         /\ pc' = [pc EXCEPT ![p] = "assets"]
         /\ UNCHANGED <<pluginErrors, idx, outcomes>>
    /\ UNCHANGED <<pluginsParam, cachePath, plugins, result, lockHolder,
                   pluginsDir, assetsDir, downloadsDir, cacheFile, attempted>>
    /\ UNCHANGED <<tried, licenseVars>>

\* pluginapi.InfoFromPlugin on the executable
InfoStep(p) ==
    /\ pc[p] = "info"
    /\ did' = [did EXCEPT ![p] = @ \cup {"info"}]
    /\ LET loc == currPlugin(p).Locator IN
       \E ok \in BOOLEAN :
         IF ok
         THEN /\ info' = [info EXCEPT ![p] = InfoFromPlugin(loc)]
              /\ pc' = [pc EXCEPT ![p] = "assets"]
              /\ UNCHANGED <<pluginErrors, idx, outcomes>>
         ELSE /\ Fail(p, loc, "info")
              /\ UNCHANGED info
    /\ UNCHANGED <<pluginsParam, cachePath, plugins, result, lockHolder,
                   pluginsDir, assetsDir, downloadsDir, cacheFile, attempted>>
    /\ UNCHANGED <<tried, licenseVars>>

\* an entry of the plugins map that is not replaced once it is there
AssetsStep_KeepFirst(p) ==
    /\ pc[p] = "assets"
    /\ LET loc == currPlugin(p).Locator
           assets == currPlugin(p).Assets
       IN \E ok \in BOOLEAN :
            IF ok \/ assets = <<>>
            THEN /\ assetsDir' = assetsDir \cup Range(assets)
                 /\ plugins' = [plugins EXCEPT ![p] =
                       [k \in DOMAIN @ \cup {loc} |->
                          IF k = loc /\ loc \notin DOMAIN @
                          THEN pluginInfoWithAssets(info[p], assets) ELSE @[k]]]
                 /\ outcomes' = [outcomes EXCEPT ![p] = Append(@, "ok")]
                 /\ Advance(p)
                 /\ UNCHANGED pluginErrors
            ELSE /\ Fail(p, loc, "assets")
                 /\ UNCHANGED <<assetsDir, plugins>>
    /\ info' = [info EXCEPT ![p] = NoInfo]
    /\ did' = [did EXCEPT ![p] =
                 IF Range(currPlugin(p).Assets) \subseteq assetsDir
                 THEN @ ELSE @ \cup {"assetResolver"}]
    /\ UNCHANGED <<pluginsParam, cachePath, result, lockHolder,
                   pluginsDir, downloadsDir, cacheFile, attempted>>
    /\ UNCHANGED <<tried, licenseVars>>

\* pluginsinternal.ResolveAssets and the entry of the plugins map
AssetsStep(p) ==
    /\ pc[p] = "assets"
    /\ LET loc == currPlugin(p).Locator
           assets == currPlugin(p).Assets
       IN \E ok \in BOOLEAN :
            IF ok \/ assets = <<>>
            THEN /\ assetsDir' = assetsDir \cup Range(assets)
                 /\ plugins' = [plugins EXCEPT ![p] =
                       [k \in DOMAIN @ \cup {loc} |->
                          IF k = loc THEN pluginInfoWithAssets(info[p], assets) ELSE @[k]]]
                 /\ outcomes' = [outcomes EXCEPT ![p] = Append(@, "ok")]
                 /\ Advance(p)
                 /\ UNCHANGED pluginErrors
            ELSE /\ Fail(p, loc, "assets")
                 /\ UNCHANGED <<assetsDir, plugins>>
    /\ info' = [info EXCEPT ![p] = NoInfo]
    /\ did' = [did EXCEPT ![p] =
                 IF Range(currPlugin(p).Assets) \subseteq assetsDir
                 THEN @ ELSE @ \cup {"assetResolver"}]
    /\ UNCHANGED <<pluginsParam, cachePath, result, lockHolder,
                   pluginsDir, downloadsDir, cacheFile, attempted>>
    /\ UNCHANGED <<tried, licenseVars>>

\* the summary without the sort of its keys (here: in descending order)
resolveError_Unsorted(errs) ==
    LET sortedKeys == SortLocators(DOMAIN errs)
        n == Len(sortedKeys)
    IN [kind |-> "resolve",
        count |-> Cardinality(DOMAIN errs),
        lines |-> [i \in DOMAIN sortedKeys |-> errs[sortedKeys[n + 1 - i]]]]

\* the error resolvePlugins returns when pluginErrors is not empty
resolveError(errs) ==
    LET sortedKeys == SortLocators(DOMAIN errs)
    IN [kind |-> "resolve",
        count |-> Cardinality(DOMAIN errs),
        lines |-> [i \in DOMAIN sortedKeys |-> errs[sortedKeys[i]]]]

\* a return that drops the summary of pluginErrors and goes on with the partial set
Return_IgnoreErrors(p) ==
    /\ pc[p] = "return"
    /\ lockHolder' = 0
    /\ IF DOMAIN pluginErrors[p] = {}
       THEN /\ pc' = [pc EXCEPT ![p] = "verify"]
            /\ UNCHANGED <<plugins, result>>
       ELSE /\ pc' = [pc EXCEPT ![p] = "verify"]
            /\ UNCHANGED <<plugins, result>>
    /\ UNCHANGED <<pluginsParam, cachePath, pluginErrors, idx, info,
                   pluginsDir, assetsDir, downloadsDir, cacheFile, did, attempted, outcomes>>
    /\ UNCHANGED <<tried, licenseVars>>

\* a return that unlocks on the success path only
Return_LeakOnError(p) ==
    /\ pc[p] = "return"
    /\ lockHolder' = IF DOMAIN pluginErrors[p] = {} THEN 0 ELSE lockHolder
    /\ IF DOMAIN pluginErrors[p] = {}
       THEN /\ pc' = [pc EXCEPT ![p] = "verify"]
            /\ UNCHANGED <<plugins, result>>
       ELSE /\ plugins' = [plugins EXCEPT ![p] = EmptyMap]
            /\ result' = [result EXCEPT ![p] = Failed(resolveError(pluginErrors[p]))]
            /\ pc' = [pc EXCEPT ![p] = "done"]
    /\ UNCHANGED <<pluginsParam, cachePath, pluginErrors, idx, info,
                   pluginsDir, assetsDir, downloadsDir, cacheFile, did, attempted, outcomes>>
    /\ UNCHANGED <<tried, licenseVars>>

\* the end of resolvePlugins (the deferred unlock included) and the check of
\* its error in loadPluginsTasks
Return(p) ==
    /\ pc[p] = "return"
    /\ lockHolder' = 0
    /\ IF DOMAIN pluginErrors[p] = {}
       THEN /\ pc' = [pc EXCEPT ![p] = "verify"]
            /\ UNCHANGED <<plugins, result>>
       ELSE /\ plugins' = [plugins EXCEPT ![p] = EmptyMap]
            /\ result' = [result EXCEPT ![p] = Failed(resolveError(pluginErrors[p]))]
            /\ pc' = [pc EXCEPT ![p] = "done"]
    /\ UNCHANGED <<pluginsParam, cachePath, pluginErrors, idx, info,
                   pluginsDir, assetsDir, downloadsDir, cacheFile, did, attempted, outcomes>>
    /\ UNCHANGED <<tried, licenseVars>>

(***************************************************************************)
(* loadPluginsTasks after resolvePlugins.                                  *)
(***************************************************************************)
\* a verification whose error is recorded while the call goes on
Verify_ErrorNotTerminal(p) ==
    /\ pc[p] = "verify"
    /\ did' = [did EXCEPT ![p] = @ \cup {"verify"}]
    /\ LET err == verifyPluginCompatibility(plugins[p]) IN
       IF err # Nil
       THEN /\ result' = [result EXCEPT ![p] = Failed(err)]
            /\ pc' = [pc EXCEPT ![p] = IF cachePath[p] # "" THEN "write" ELSE "aggregate"]
       ELSE /\ pc' = [pc EXCEPT ![p] = IF cachePath[p] # "" THEN "write" ELSE "aggregate"]
            /\ UNCHANGED result
    /\ UNCHANGED <<pluginsParam, cachePath, plugins, pluginErrors, idx, info, lockHolder,
                   pluginsDir, assetsDir, downloadsDir, cacheFile, attempted, outcomes>>
    /\ UNCHANGED <<tried, licenseVars>>

Verify(p) ==
    /\ pc[p] = "verify"
    /\ did' = [did EXCEPT ![p] = @ \cup {"verify"}]
    /\ LET err == verifyPluginCompatibility(plugins[p]) IN
       IF err # Nil
       THEN /\ result' = [result EXCEPT ![p] = Failed(err)]
            /\ pc' = [pc EXCEPT ![p] = "done"]
       ELSE /\ pc' = [pc EXCEPT ![p] = IF cachePath[p] # "" THEN "write" ELSE "aggregate"]
            /\ UNCHANGED result
    /\ UNCHANGED <<pluginsParam, cachePath, plugins, pluginErrors, idx, info, lockHolder,
                   pluginsDir, assetsDir, downloadsDir, cacheFile, attempted, outcomes>>
    /\ UNCHANGED <<tried, licenseVars>>

\* the steps of an invocation between the encoding and the end of writeFileUsingRename
WritePhase == {"write", "temp", "partial", "rename"}

\* an encoding whose failure is recorded while the call goes on to its tasks
WriteCache_FailureNotTerminal(p) ==
    /\ pc[p] = "write"
    /\ \E outcome \in {"ok", "marshalFails"} :
         CASE outcome = "ok" ->
                /\ pc' = [pc EXCEPT ![p] = "temp"]
                /\ UNCHANGED result
           [] outcome = "marshalFails" ->
                /\ result' = [result EXCEPT ![p] = Failed([kind |-> "marshal"])]
                /\ pc' = [pc EXCEPT ![p] = "aggregate"]
    /\ UNCHANGED <<cacheFile, did>>
    /\ UNCHANGED <<pluginsParam, cachePath, plugins, pluginErrors, idx, info, lockHolder,
                   pluginsDir, assetsDir, downloadsDir, attempted, outcomes>>
    /\ UNCHANGED <<tried, licenseVars>>

\* the cache write: the set is encoded, then handed to writeFileUsingRename
WriteCache(p) ==
    /\ pc[p] = "write"
    /\ \E outcome \in {"ok", "marshalFails"} :
         CASE outcome = "ok" ->
                /\ pc' = [pc EXCEPT ![p] = "temp"]
                /\ UNCHANGED result
           [] outcome = "marshalFails" ->
                /\ result' = [result EXCEPT ![p] = Failed([kind |-> "marshal"])]
                /\ pc' = [pc EXCEPT ![p] = "done"]
    /\ UNCHANGED <<cacheFile, did>>
    /\ UNCHANGED <<pluginsParam, cachePath, plugins, pluginErrors, idx, info, lockHolder,
                   pluginsDir, assetsDir, downloadsDir, attempted, outcomes>>
    /\ UNCHANGED <<tried, licenseVars>>

\* the temporary file of p next to the cache file: empty, written in part, or complete
tmpFile(p) ==
    IF pc[p] = "partial" THEN CorruptFile
    ELSE IF pc[p] = "rename" THEN ValidFile(plugins[p])
    ELSE AbsentFile

\* a write that puts the bytes into the cache file itself
WriteTemp_InPlace(p) ==
    /\ pc[p] \in {"temp", "partial"}
    /\ \E outcome \in {"ok", "writeFails"} :
         CASE outcome = "ok" /\ pc[p] = "temp" ->
                /\ pc' = [pc EXCEPT ![p] = "partial"]
                /\ did' = [did EXCEPT ![p] = @ \cup {"temp"}]
                /\ cacheFile' = CorruptFile
                /\ UNCHANGED result
           [] outcome = "ok" /\ pc[p] = "partial" ->
                /\ pc' = [pc EXCEPT ![p] = "rename"]
                /\ cacheFile' = ValidFile(plugins[p])
                /\ UNCHANGED <<result, did>>
           [] outcome = "writeFails" ->
                /\ result' = [result EXCEPT ![p] = Failed([kind |-> "write"])]
                /\ pc' = [pc EXCEPT ![p] = "done"]
                /\ UNCHANGED <<cacheFile, did>>
    /\ UNCHANGED <<pluginsParam, cachePath, plugins, pluginErrors, idx, info, lockHolder,
                   pluginsDir, assetsDir, downloadsDir, attempted, outcomes>>
    /\ UNCHANGED <<tried, licenseVars>>

\* writeFileUsingRename, first part: the bytes go to the temporary file, not all at once
WriteTemp(p) ==
    /\ pc[p] \in {"temp", "partial"}
    /\ \E outcome \in {"ok", "writeFails"} :
         CASE outcome = "ok" /\ pc[p] = "temp" ->
                /\ pc' = [pc EXCEPT ![p] = "partial"]
                /\ did' = [did EXCEPT ![p] = @ \cup {"temp"}]
                /\ UNCHANGED cacheFile
                /\ UNCHANGED result
           [] outcome = "ok" /\ pc[p] = "partial" ->
                /\ pc' = [pc EXCEPT ![p] = "rename"]
                /\ UNCHANGED cacheFile
                /\ UNCHANGED <<result, did>>
           [] outcome = "writeFails" ->
                /\ result' = [result EXCEPT ![p] = Failed([kind |-> "write"])]
                /\ pc' = [pc EXCEPT ![p] = "done"]
                /\ UNCHANGED <<cacheFile, did>>
    /\ UNCHANGED <<pluginsParam, cachePath, plugins, pluginErrors, idx, info, lockHolder,
                   pluginsDir, assetsDir, downloadsDir, attempted, outcomes>>
    /\ UNCHANGED <<tried, licenseVars>>

\* a cache file that keeps the plugin infos without their assets
Rename_InfoOnly(p) ==
    /\ pc[p] = "rename"
    /\ \E outcome \in {"ok", "renameFails"} :
         CASE outcome = "ok" ->
                /\ cacheFile' = ValidFile([k \in DOMAIN plugins[p] |->
                                   pluginInfoWithAssets(plugins[p][k].PluginInfo, <<>>)])
                /\ did' = [did EXCEPT ![p] = @ \cup {"write"}]
                /\ pc' = [pc EXCEPT ![p] = "aggregate"]
                /\ UNCHANGED result
           [] outcome = "renameFails" ->
                /\ result' = [result EXCEPT ![p] = Failed([kind |-> "write"])]
                /\ pc' = [pc EXCEPT ![p] = "done"]
                /\ UNCHANGED <<cacheFile, did>>
    /\ UNCHANGED <<pluginsParam, cachePath, plugins, pluginErrors, idx, info, lockHolder,
                   pluginsDir, assetsDir, downloadsDir, attempted, outcomes>>
    /\ UNCHANGED <<tried, licenseVars>>

\* writeFileUsingRename, second part: the temporary file is renamed over the cache file
Rename(p) ==
    /\ pc[p] = "rename"
    /\ \E outcome \in {"ok", "renameFails"} :
         CASE outcome = "ok" ->
                /\ cacheFile' = tmpFile(p)
                /\ did' = [did EXCEPT ![p] = @ \cup {"write"}]
                /\ pc' = [pc EXCEPT ![p] = "aggregate"]
                /\ UNCHANGED result
           [] outcome = "renameFails" ->
                /\ result' = [result EXCEPT ![p] = Failed([kind |-> "write"])]
                /\ pc' = [pc EXCEPT ![p] = "done"]
                /\ UNCHANGED <<cacheFile, did>>
    /\ UNCHANGED <<pluginsParam, cachePath, plugins, pluginErrors, idx, info, lockHolder,
                   pluginsDir, assetsDir, downloadsDir, attempted, outcomes>>
    /\ UNCHANGED <<tried, licenseVars>>

\* the process dies while it writes the cache: nothing more is done, files stay as they are
Crash(p) ==
    /\ pc[p] \in WritePhase
    /\ pc' = [pc EXCEPT ![p] = "crashed"]
    /\ UNCHANGED <<pluginsParam, cachePath, plugins, pluginErrors, idx, info, result, lockHolder,
                   pluginsDir, assetsDir, downloadsDir, cacheFile, did, attempted, outcomes>>
    /\ UNCHANGED <<tried, licenseVars>>

\* PluginInfo.Tasks(pluginExecPath, assetPaths)
Tasks(pluginInfo, pluginExecPath, assetPaths) ==
    [i \in DOMAIN pluginInfo.Tasks |->
        [Name |-> pluginInfo.Tasks[i], PluginExecPath |-> pluginExecPath,
         AssetPaths |-> assetPaths]]

\* PluginInfo.UpgradeConfigTask(pluginExecPath, assetPaths), as a list of at most one
UpgradeConfigTask(pluginInfo, pluginExecPath, assetPaths) ==
    IF pluginInfo.Upgrade
    THEN <<[PluginExecPath |-> pluginExecPath, AssetPaths |-> assetPaths]>>
    ELSE <<>>

RECURSIVE tasksOf(_, _)
tasksOf(sortedPluginLocators, m) ==
    IF sortedPluginLocators = <<>> THEN <<>>
    ELSE LET pluginLoc == Head(sortedPluginLocators)
         IN Tasks(m[pluginLoc].PluginInfo, pluginLoc, m[pluginLoc].Assets)
              \o tasksOf(Tail(sortedPluginLocators), m)

RECURSIVE upgradeConfigTasksOf(_, _)
upgradeConfigTasksOf(sortedPluginLocators, m) ==
    IF sortedPluginLocators = <<>> THEN <<>>
    ELSE LET pluginLoc == Head(sortedPluginLocators)
         IN UpgradeConfigTask(m[pluginLoc].PluginInfo, pluginLoc, m[pluginLoc].Assets)
              \o upgradeConfigTasksOf(Tail(sortedPluginLocators), m)

\* the orders in which a range over the map may yield its keys
KeyOrders(S) == {s \in [1..Cardinality(S) -> S] : Range(s) = S}

\* an aggregation that takes the keys in the order the map yielded them
Aggregate_NoSort(p) ==
    /\ pc[p] = "aggregate"
    /\ \E keys \in KeyOrders(DOMAIN plugins[p]) :
         LET sortedPluginLocators == keys IN
         result' = [result EXCEPT ![p] =
                       [tasks |-> tasksOf(sortedPluginLocators, plugins[p]),
                        upgradeConfigTasks |-> upgradeConfigTasksOf(sortedPluginLocators, plugins[p]),
                        err |-> Nil]]
    /\ pc' = [pc EXCEPT ![p] = "done"]
    /\ UNCHANGED <<pluginsParam, cachePath, plugins, pluginErrors, idx, info, lockHolder,
                   pluginsDir, assetsDir, downloadsDir, cacheFile, did, attempted, outcomes>>
    /\ UNCHANGED <<tried, licenseVars>>

\* an aggregation without the test of the upgrade task for nil
Aggregate_UpgradeForAll(p) ==
    /\ pc[p] = "aggregate"
    /\ \E keys \in KeyOrders(DOMAIN plugins[p]) :
         LET sortedPluginLocators == SortLocators(Range(keys)) IN
         result' = [result EXCEPT ![p] =
                       [tasks |-> tasksOf(sortedPluginLocators, plugins[p]),
                        upgradeConfigTasks |->
                            [i \in DOMAIN sortedPluginLocators |->
                                [PluginExecPath |-> sortedPluginLocators[i],
                                 AssetPaths |-> plugins[p][sortedPluginLocators[i]].Assets]],
                        err |-> Nil]]
    /\ pc' = [pc EXCEPT ![p] = "done"]
    /\ UNCHANGED <<pluginsParam, cachePath, plugins, pluginErrors, idx, info, lockHolder,
                   pluginsDir, assetsDir, downloadsDir, cacheFile, did, attempted, outcomes>>
    /\ UNCHANGED <<tried, licenseVars>>

\* the keys of the map in the order of the iteration, sorted, then the tasks per key
Aggregate(p) ==
    /\ pc[p] = "aggregate"
    /\ \E keys \in KeyOrders(DOMAIN plugins[p]) :
         LET sortedPluginLocators == SortLocators(Range(keys)) IN
         result' = [result EXCEPT ![p] =
                       [tasks |-> tasksOf(sortedPluginLocators, plugins[p]),
                        upgradeConfigTasks |-> upgradeConfigTasksOf(sortedPluginLocators, plugins[p]),
                        err |-> Nil]]
    /\ pc' = [pc EXCEPT ![p] = "done"]
    /\ UNCHANGED <<pluginsParam, cachePath, plugins, pluginErrors, idx, info, lockHolder,
                   pluginsDir, assetsDir, downloadsDir, cacheFile, did, attempted, outcomes>>
    /\ UNCHANGED <<tried, licenseVars>>

(***************************************************************************)
(* The run command of the license plugin.                                  *)
(***************************************************************************)
\* a path of the project directory: its directories, then the file's name
Path(dirs, base, ext) == [dirs |-> dirs, base |-> base, ext |-> ext]

FooGo == Path(<<>>, "foo", "go")
VendorBarGo == Path(<<"vendor", "github.com">>, "bar", "go")
GenBazGo == Path(<<"gen">>, "baz", "go")
GodelScript == Path(<<"godel", "config">>, "x", "go")
ReadMe == Path(<<>>, "README", "md")

ProjectPaths == {FooGo, VendorBarGo, GenBazGo, GodelScript, ReadMe}

\* the license header at the top of a file
Header == "header"
Contents == {<<"package">>, <<Header, "package">>}

\* matcher.Name(`.*\.go`)
GoFileMatcher(path) == path.ext = "go"

\* an exclude configuration: names of path elements and paths below the project directory
NoExcludes == [names |-> {}, paths |-> {}]
ExcludeAdd(exclude, more) ==
    [names |-> exclude.names \cup more.names, paths |-> exclude.paths \cup more.paths]

IsPrefix(q, s) == Len(q) <= Len(s) /\ \A i \in DOMAIN q : q[i] = s[i]

\* the exclude matcher: an element of the path has an excluded name, or the path lies
\* below an excluded path
Excludes(exclude, path) ==
    \/ \E i \in DOMAIN path.dirs : path.dirs[i] \in exclude.names
    \/ \E q \in exclude.paths : IsPrefix(q, path.dirs)

\* the excludes of godel.yml
godelYML == [names |-> {"vendor"}, paths |-> {<<"godel">>}]
ReadGodelConfigExcludesFromFile(file) == godelYML

\* the excludes a license-plugin.yml may hold
ProjectCfgs == {NoExcludes, [names |-> {"gen"}, paths |-> {}]}

\* godellauncher.ListProjectPaths(projectDir, include, exclude)
ListProjectPaths(projectDir, include, exclude) ==
    {path \in projectDir : include[path] /\ ~Excludes(exclude, path)}

HasHeader(content) == content # <<>> /\ Head(content) = Header
ApplyHeader(content) == IF HasHeader(content) THEN content ELSE <<Header>> \o content
RemoveHeader(content) == IF HasHeader(content) THEN Tail(content) ELSE content

\* golicense.RunLicense(files, projectParam, verify, remove, stdout): the files after it
\* and whether it returned an error
RunLicense(goFiles, verify, remove) ==
    IF verify
    THEN [files |-> files,
          exit |-> IF \A f \in goFiles : HasHeader(files[f]) THEN "ok" ELSE "error"]
    ELSE IF remove
    THEN [files |-> [f \in DOMAIN files |->
                        IF f \in goFiles THEN RemoveHeader(files[f]) ELSE files[f]],
          exit |-> "ok"]
    ELSE [files |-> [f \in DOMAIN files |->
                        IF f \in goFiles THEN ApplyHeader(files[f]) ELSE files[f]],
          exit |-> "ok"]

\* a run that does not add the excludes of the godel configuration
runCmd_WithoutGodelExcludes ==
    /\ exit = "none"
    /\ \E err \in {"", "LoadConfig", "ReadGodelConfigExcludesFromFile"} :
         IF err = "LoadConfig" \/ (err # "" /\ godelConfigFileFlagVal # "")
         THEN exit' = "error" /\ UNCHANGED files
         ELSE LET exclude == projectCfg
                  goFiles == ListProjectPaths(ProjectPaths,
                                 [f \in ProjectPaths |-> GoFileMatcher(f)], exclude)
                  r == RunLicense(goFiles, verifyFlagVal, removeFlagVal)
              IN files' = r.files /\ exit' = r.exit
    /\ UNCHANGED <<projectCfg, godelConfigFileFlagVal, verifyFlagVal, removeFlagVal>>
    /\ UNCHANGED loaderVars

\* runCmd.RunE
runCmd ==
    /\ exit = "none"
    /\ \E err \in {"", "LoadConfig", "ReadGodelConfigExcludesFromFile"} :
         IF err = "LoadConfig" \/ (err # "" /\ godelConfigFileFlagVal # "")
         THEN exit' = "error" /\ UNCHANGED files
         ELSE LET exclude == IF godelConfigFileFlagVal # ""
                             THEN ExcludeAdd(projectCfg,
                                     ReadGodelConfigExcludesFromFile(godelConfigFileFlagVal))
                             ELSE projectCfg
                  goFiles == ListProjectPaths(ProjectPaths,
                                 [f \in ProjectPaths |-> GoFileMatcher(f)], exclude)
                  r == RunLicense(goFiles, verifyFlagVal, removeFlagVal)
              IN files' = r.files /\ exit' = r.exit
    /\ UNCHANGED <<projectCfg, godelConfigFileFlagVal, verifyFlagVal, removeFlagVal>>
    /\ UNCHANGED loaderVars

\* the license plugin has not been run
LicenseIdle ==
    /\ files = [f \in ProjectPaths |-> <<"package">>]
    /\ projectCfg = NoExcludes
    /\ godelConfigFileFlagVal = ""
    /\ verifyFlagVal = FALSE
    /\ removeFlagVal = FALSE
    /\ exit = "none"

(***************************************************************************)
(* Specifications.                                                         *)
(***************************************************************************)
\* between acquiring and releasing godel-resolver.lock
InResolve(p) == pc[p] \in {"resolve", "checksum", "info", "assets", "return"}

Step(p) ==
    \/ ReadCache(p)
    \/ LockFail(p)
    \/ Lock(p)
    \/ ResolveStep(p)
    \/ ChecksumStep(p)
    \/ InfoStep(p)
    \/ AssetsStep(p)
    \/ Return(p)
    \/ Verify(p)
    \/ WriteCache(p)
    \/ WriteTemp(p)
    \/ Rename(p)
    \/ Crash(p)
    \/ Aggregate(p)

Next == \E p \in Procs : Step(p)

\* the resolved sets an earlier run may have left in the cache file
CachedSets ==
    { [k \in {L3} |-> pluginInfoWithAssets(InfoFromPlugin(k), <<A1>>)],
      [k \in {L1, L2, L3} |->
          pluginInfoWithAssets(InfoFromPlugin(k), IF k = L3 THEN <<A1>> ELSE <<>>)] }

\* what does not depend on the invocations
InitShared ==
    /\ plugins = [p \in Procs |-> EmptyMap]
    /\ pluginErrors = [p \in Procs |-> EmptyMap]
    /\ idx = [p \in Procs |-> 1]
    /\ info = [p \in Procs |-> NoInfo]
    /\ result = [p \in Procs |-> NoResult]
    /\ lockHolder = 0
    /\ assetsDir = {}
    /\ downloadsDir = {}
    /\ did = [p \in Procs |-> {}]
    /\ attempted = [p \in Procs |-> <<>>]
    /\ outcomes = [p \in Procs |-> <<>>]
    /\ tried = [p \in Procs |-> <<>>]
    /\ LicenseIdle

\* one invocation, any declaration list, any state of the cache file
Init ==
    /\ InitShared
    /\ pc = [p \in Procs |-> IF p = 1 THEN "start" ELSE "idle"]
    /\ \E l \in SeqsUpTo(Declarations, MaxDecls) : pluginsParam = [p \in Procs |-> IF p = 1 THEN l ELSE <<>>]
    /\ \E c \in {"", "cache"} : cachePath = [p \in Procs |-> c]
    /\ pluginsDir \in {{}, {L1}}
    /\ cacheFile \in {AbsentFile, UnreadableFile, CorruptFile} \cup {ValidFile(m) : m \in CachedSets}
    /\ cachePath[1] = "" => cacheFile = AbsentFile
    /\ cachePath[1] = "" => pluginsDir = {}

Spec == Init /\ [][Next]_vars

\* the declarations of the concurrent invocations: with and without custom resolver,
\* checksum and assets
ConcDeclarations == {d \in Declarations : d.Locator \in {L1, L2}}

\* two concurrent invocations on the same plugins directory and cache file
InitConc ==
    /\ InitShared
    /\ pc = [p \in Procs |-> "start"]
    /\ pluginsParam \in [Procs -> SeqsUpTo(ConcDeclarations, MaxConcDecls)]
    /\ cachePath \in {c \in [Procs -> {"", "cache"}] : c[1] = "cache"}
    /\ pluginsDir = {}
    /\ cacheFile = AbsentFile

SpecConc == InitConc /\ [][Next]_vars

\* a step of p between acquiring and releasing the lock
ResolutionStep(p) == InResolve(p) /\ Step(p)

\* two concurrent invocations without a cache file, up to their return from resolvePlugins
InitResolve ==
    /\ InitShared
    /\ pc = [p \in Procs |-> "start"]
    /\ pluginsParam \in [Procs -> SeqsUpTo(ConcDeclarations, MaxConcDecls)]
    /\ cachePath = [p \in Procs |-> ""]
    /\ pluginsDir = {}
    /\ cacheFile = AbsentFile

NextResolve ==
    \E p \in Procs :
        \/ ReadCache(p)
        \/ LockFail(p)
        \/ Lock(p)
        \/ ResolveStep(p)
        \/ ChecksumStep(p)
        \/ InfoStep(p)
        \/ AssetsStep(p)
        \/ Return(p)

\* the concurrent invocations under a fair scheduler: a lock holder goes on until it
\* returns, and an invocation that is again and again able to take the lock takes it
FairSpecConc ==
    /\ InitResolve
    /\ [][NextResolve]_vars
    /\ \A p \in Procs : WF_vars(ResolutionStep(p)) /\ SF_vars(Lock(p))

\* two invocations, each with its own declarations, on a cache file an earlier run left
InitHit ==
    /\ InitShared
    /\ pc = [p \in Procs |-> "start"]
    /\ pluginsParam \in [Procs -> SeqsUpTo(Declarations, MaxConcDecls)]
    /\ cachePath = [p \in Procs |-> "cache"]
    /\ pluginsDir = {}
    /\ cacheFile \in {ValidFile(m) : m \in CachedSets}

NextHit == \E p \in Procs : ReadCache(p) \/ Aggregate(p)

SpecHit == InitHit /\ [][NextHit]_vars

\* declarations of which two name the same locator with different assets
RepeatedDeclarations ==
    { [Locator |-> L1, Checksum |-> TRUE, Assets |-> <<>>, Resolver |-> "custom"],
      [Locator |-> L1, Checksum |-> FALSE, Assets |-> <<A1>>, Resolver |-> ""],
      [Locator |-> L3, Checksum |-> TRUE, Assets |-> <<A1>>, Resolver |-> ""] }

\* one invocation without a cache file whose list may declare a locator more than once
InitRepeated ==
    /\ InitShared
    /\ pc = [p \in Procs |-> IF p = 1 THEN "start" ELSE "idle"]
    /\ \E l \in SeqsUpTo(RepeatedDeclarations, MaxDecls) :
          pluginsParam = [p \in Procs |-> IF p = 1 THEN l ELSE <<>>]
    /\ cachePath = [p \in Procs |-> ""]
    /\ pluginsDir = {}
    /\ cacheFile = AbsentFile

SpecRepeated == InitRepeated /\ [][NextResolve]_vars

\* one run of the license plugin on any project directory, with any flags
InitLicense ==
    /\ files \in [ProjectPaths -> Contents]
    /\ projectCfg \in ProjectCfgs
    /\ godelConfigFileFlagVal \in {"", "godel/config/godel.yml"}
    /\ verifyFlagVal \in BOOLEAN
    /\ removeFlagVal \in BOOLEAN
    /\ exit = "none"
    /\ plugins = [p \in Procs |-> EmptyMap]
    /\ pluginErrors = [p \in Procs |-> EmptyMap]
    /\ idx = [p \in Procs |-> 1]
    /\ info = [p \in Procs |-> NoInfo]
    /\ result = [p \in Procs |-> NoResult]
    /\ lockHolder = 0
    /\ assetsDir = {}
    /\ downloadsDir = {}
    /\ did = [p \in Procs |-> {}]
    /\ attempted = [p \in Procs |-> <<>>]
    /\ outcomes = [p \in Procs |-> <<>>]
    /\ tried = [p \in Procs |-> <<>>]
    /\ pc = [p \in Procs |-> "idle"]
    /\ pluginsParam = [p \in Procs |-> <<>>]
    /\ cachePath = [p \in Procs |-> ""]
    /\ pluginsDir = {}
    /\ cacheFile = AbsentFile

NextLicense == runCmd

SpecLicense == InitLicense /\ [][NextLicense]_vars

\* the locators of the resolved sets handed to the verifier
VerifyLocators == {Loc(1, 1, 1), Loc(1, 1, 2), Loc(1, 2, 1), Loc(2, 1, 1), Loc(2, 2, 1)}

\* the resolved sets handed to the verifier: any infos under these locators
ResolvedSets ==
    UNION {[S -> [PluginInfo : {i \in PluginInfos : ~i.Upgrade}, Assets : {<<>>}]] :
              S \in {T \in SUBSET VerifyLocators : Cardinality(T) <= MaxPlugins}}

\* resolvePlugins has returned a resolved set without error
InitVerify ==
    /\ pluginErrors = [p \in Procs |-> EmptyMap]
    /\ idx = [p \in Procs |-> 1]
    /\ info = [p \in Procs |-> NoInfo]
    /\ result = [p \in Procs |-> NoResult]
    /\ lockHolder = 0
    /\ assetsDir = {}
    /\ downloadsDir = {}
    /\ did = [p \in Procs |-> {}]
    /\ attempted = [p \in Procs |-> <<>>]
    /\ outcomes = [p \in Procs |-> <<>>]
    /\ tried = [p \in Procs |-> <<>>]
    /\ pc = [p \in Procs |-> IF p = 1 THEN "verify" ELSE "idle"]
    /\ pluginsParam = [p \in Procs |-> <<>>]
    /\ cachePath = [p \in Procs |-> ""]
    /\ pluginsDir = {}
    /\ cacheFile = AbsentFile
    /\ \E m \in ResolvedSets : plugins = [p \in Procs |-> IF p = 1 THEN m ELSE EmptyMap]
    /\ LicenseIdle

NextVerify == \E p \in Procs : Verify(p) \/ Aggregate(p)

SpecVerify == InitVerify /\ [][NextVerify]_vars

(***************************************************************************)
(* Vocabulary of the properties.                                           *)
(***************************************************************************)

\* resolvePlugins has returned to loadPluginsTasks
Returned(p) ==
    "lock" \in did[p] /\ pc[p] \in {"verify", "aggregate", "done", "crashed"} \cup WritePhase

\* the declarations of p that failed, by position
FailedAt(p) == {i \in DOMAIN outcomes[p] : outcomes[p][i] # "ok"}

\* the locators of p that failed
FailedLocators(p) == {attempted[p][i] : i \in FailedAt(p)}

\* a sequence of locators in strictly ascending locator order
Ascending(locs) == \A i, j \in DOMAIN locs : i < j => LocLess(locs[i], locs[j])

\* the last failure the declarations of p had under loc
LastFailure(p, loc) ==
    LET i == CHOOSE j \in FailedAt(p) :
                /\ attempted[p][j] = loc
                /\ \A k \in FailedAt(p) : attempted[p][k] = loc => k <= j
    IN [kind |-> outcomes[p][i], loc |-> loc]

(***************************************************************************)
(* C1: of two concurrent invocations on the same plugins directory at most *)
(* one is between acquiring and releasing godel-resolver.lock, and every   *)
(* invocation that is there is the holder of the lock; so the resolve,     *)
(* unpack, checksum, info-query and asset steps of one never interleave    *)
(* with those of the other.                                                *)
(***************************************************************************)
C1_MutualExclusion ==
    /\ \A p, q \in Procs : p # q => ~(InResolve(p) /\ InResolve(q))
    /\ \A p \in Procs : InResolve(p) => lockHolder = p

\* one invocation is in the middle of a declaration while the other waits for the lock
C1_Witness ==
    \E p, q \in Procs :
        /\ p # q
        /\ pc[p] \in {"checksum", "info", "assets"}
        /\ pc[q] = "lock"

(***************************************************************************)
(* C2: every declaration of the list is attempted, in list order, whatever *)
(* the outcome of the earlier ones: a failure at the resolve, checksum,    *)
(* info-query or asset step is recorded under the locator of its           *)
(* declaration, and once the loop is over all declarations were attempted. *)
(***************************************************************************)
C2_AllAttempted ==
    \A p \in Procs :
        /\ \A i \in DOMAIN attempted[p] :
              i <= Len(pluginsParam[p]) /\ attempted[p][i] = pluginsParam[p][i].Locator
        /\ pc[p] \in {"resolve", "checksum", "info", "assets", "return"} =>
              \A i \in FailedAt(p) : attempted[p][i] \in DOMAIN pluginErrors[p]
        /\ pc[p] = "return" \/ Returned(p) =>
              /\ Len(attempted[p]) = Len(pluginsParam[p])
              /\ Len(outcomes[p]) = Len(pluginsParam[p])

\* the first of three declarations failed and a later one was resolved all the same
C2_Witness ==
    \E p \in Procs :
        /\ pc[p] = "return"
        /\ Len(pluginsParam[p]) = 3
        /\ outcomes[p][1] \in {"resolve", "unpack", "checksum", "info", "assets"}
        /\ outcomes[p][3] = "ok"

(***************************************************************************)
(* C3: resolvePlugins returns the accumulated set and no error if and only *)
(* if no declaration failed; otherwise it returns no set and one error     *)
(* that lists the reason of every failed locator and of no other, in       *)
(* locator order.                                                          *)
(***************************************************************************)
C3_ResolveResult ==
    \A p \in Procs :
        Returned(p) =>
            IF FailedAt(p) = {}
            THEN /\ result[p].err.kind # "resolve"
                 /\ DOMAIN plugins[p] = Range(attempted[p])
            ELSE /\ pc[p] = "done"
                 /\ result[p].err.kind = "resolve"
                 /\ result[p].tasks = <<>>
                 /\ plugins[p] = EmptyMap
                 /\ result[p].err.count = Cardinality(FailedLocators(p))
                 /\ LET lines == result[p].err.lines IN
                    /\ Ascending([i \in DOMAIN lines |-> lines[i].loc])
                    /\ {lines[i].loc : i \in DOMAIN lines} = FailedLocators(p)
                    /\ \A i \in DOMAIN lines : lines[i] = LastFailure(p, lines[i].loc)

\* two locators failed, declared in descending locator order, and one declaration succeeded
C3_Witness ==
    \E p \in Procs :
        /\ Returned(p)
        /\ Cardinality(FailedLocators(p)) = 2
        /\ \E i \in DOMAIN outcomes[p] : outcomes[p][i] = "ok"
        /\ \E i, j \in FailedAt(p) : i < j /\ LocLess(attempted[p][j], attempted[p][i])

(***************************************************************************)
(* Vocabulary of the compatibility properties: the three rules as the      *)
(* specification words them, on the infos of a resolved set m.             *)
(***************************************************************************)
\* verifyPluginCompatibility has run in invocation p
Verified(p) == "verify" \in did[p]

TaskNamesOf(m, a) == Range(m[a].PluginInfo.Tasks)

SameProduct(a, b) == a.Group = b.Group /\ a.Product = b.Product

ConfigCollision(m, a, b) ==
    /\ a.Group # b.Group
    /\ a.Product = b.Product
    /\ m[a].PluginInfo.UsesConfig
    /\ m[b].PluginInfo.UsesConfig

TaskCollision(m, a, b) == TaskNamesOf(m, a) \cap TaskNamesOf(m, b) # {}

Conflicting(m, a, b) ==
    a # b /\ (SameProduct(a, b) \/ ConfigCollision(m, a, b) \/ TaskCollision(m, a, b))

\* the conflict report of invocation p: empty if verification returned nil
Report(p) == IF result[p].err.kind = "compatibility" THEN result[p].err.conflicts ELSE EmptyMap

\* the reason the report of p holds for the ordered pair (a, b)
Reason(p, a, b) ==
    IF a \in DOMAIN Report(p) /\ b \in DOMAIN Report(p)[a] THEN Report(p)[a][b] ELSE NoConflict

NonDecreasing(s) == \A i, j \in DOMAIN s : i < j => s[i] <= s[j]

(***************************************************************************)
(* C4: two resolved plugins that share group and product and differ in     *)
(* version are reported as one conflicting pair: each is the partner of    *)
(* the other with the single reason "different version of the same         *)
(* plugin", whatever their task sets and config-usage flags are.           *)
(***************************************************************************)
C4_DuplicateProduct ==
    \A p \in Procs :
        Verified(p) =>
            \A a, b \in DOMAIN plugins[p] :
                a # b /\ SameProduct(a, b) =>
                    /\ result[p].err.kind = "compatibility"
                    /\ Reason(p, a, b) = DifferentVersion
                    /\ Reason(p, b, a) = DifferentVersion

\* two versions of one product whose task sets overlap and which both use configuration
C4_Witness ==
    \E p \in Procs :
        /\ Verified(p)
        /\ \E a, b \in DOMAIN plugins[p] :
              /\ a # b
              /\ SameProduct(a, b)
              /\ TaskCollision(plugins[p], a, b)
              /\ plugins[p][a].PluginInfo.UsesConfig
              /\ plugins[p][b].PluginInfo.UsesConfig
              /\ Reason(p, a, b) = DifferentVersion

(***************************************************************************)
(* C5: two resolved plugins of different groups with the same product name *)
(* that both use a configuration file are reported as a config collision,  *)
(* also when their task sets are disjoint; if at most one of them uses     *)
(* configuration, no config collision is reported for the pair.            *)
(***************************************************************************)
C5_ConfigCollision ==
    \A p \in Procs :
        Verified(p) =>
            \A a, b \in DOMAIN plugins[p] :
                a.Group # b.Group /\ a.Product = b.Product =>
                    IF plugins[p][a].PluginInfo.UsesConfig /\ plugins[p][b].PluginInfo.UsesConfig
                    THEN Reason(p, a, b) = SameNameConfig
                    ELSE Reason(p, a, b) # SameNameConfig

\* a config collision between plugins whose task sets are disjoint and not empty
C5_Witness ==
    \E p \in Procs :
        /\ Verified(p)
        /\ \E a, b \in DOMAIN plugins[p] :
              /\ ConfigCollision(plugins[p], a, b)
              /\ TaskNamesOf(plugins[p], a) # {}
              /\ TaskNamesOf(plugins[p], b) # {}
              /\ ~TaskCollision(plugins[p], a, b)
              /\ Reason(p, a, b) = SameNameConfig

(***************************************************************************)
(* C6: for two resolved plugins flagged by neither the duplicate-product   *)
(* nor the config-collision rule, a task conflict is reported if and only  *)
(* if their task-name sets intersect, and its reason names the task names  *)
(* of the intersection, in sorted order, and no others.                    *)
(***************************************************************************)
C6_TaskCollision ==
    \A p \in Procs :
        Verified(p) =>
            \A a, b \in DOMAIN plugins[p] :
                a # b /\ ~SameProduct(a, b) /\ ~ConfigCollision(plugins[p], a, b) =>
                    LET common == TaskNamesOf(plugins[p], a) \cap TaskNamesOf(plugins[p], b)
                        r == Reason(p, a, b)
                    IN IF common = {}
                       THEN r = NoConflict
                       ELSE /\ r.msg = "provides conflicting tasks"
                            /\ Range(r.tasks) = common
                            /\ NonDecreasing(r.tasks)

\* two task names in common, declared in descending order by the first plugin
C6_Witness ==
    \E p \in Procs :
        /\ Verified(p)
        /\ \E a, b \in DOMAIN plugins[p] :
              /\ a # b /\ ~SameProduct(a, b) /\ ~ConfigCollision(plugins[p], a, b)
              /\ plugins[p][a].PluginInfo.Tasks = <<2, 1>>
              /\ Reason(p, a, b) = ConflictingTasks(<<1, 2>>)

(***************************************************************************)
(* C7: verifyPluginCompatibility returns nil if and only if no pair of     *)
(* distinct resolved plugins satisfies one of the three rules; otherwise   *)
(* its one error covers every conflicting pair: the offending locators in  *)
(* locator order and, under each, one reason per conflicting partner in    *)
(* the locator order of the partners.                                      *)
(***************************************************************************)
C7_AggregatedConflicts ==
    \A p \in Procs :
        Verified(p) =>
            LET m == plugins[p]
                offending == {a \in DOMAIN m : \E b \in DOMAIN m : Conflicting(m, a, b)}
                partners(a) == {b \in DOMAIN m : Conflicting(m, a, b)}
                position(a, b) == 1 + Cardinality({c \in partners(a) : LocLess(c, b)})
            IN IF offending = {}
               THEN result[p].err.kind # "compatibility"
               ELSE /\ pc[p] = "done"
                    /\ result[p].err.kind = "compatibility"
                    /\ result[p].err.count = Cardinality(offending)
                    /\ DOMAIN Report(p) = offending
                    /\ \A a \in offending : DOMAIN Report(p)[a] = partners(a)
                    /\ LET lines == result[p].err.lines IN
                       /\ Len(lines) = Cardinality(offending)
                       /\ Ascending([i \in DOMAIN lines |-> lines[i].loc])
                       /\ \A i \in DOMAIN lines :
                            /\ lines[i].loc \in offending
                            /\ Len(lines[i].errs) = Cardinality(partners(lines[i].loc))
                            /\ \A b \in partners(lines[i].loc) :
                                 lines[i].errs[position(lines[i].loc, b)] = Reason(p, lines[i].loc, b)

\* three plugins, each in conflict with both others, for three different reasons
C7_Witness ==
    \E p \in Procs :
        /\ Verified(p)
        /\ result[p].err.kind = "compatibility"
        /\ result[p].err.count = 3
        /\ \E a, b, c \in DOMAIN plugins[p] :
              /\ Reason(p, a, b) = DifferentVersion
              /\ Reason(p, a, c) = SameNameConfig
              /\ Reason(p, b, c).msg = "provides conflicting tasks"

(***************************************************************************)
(* C8: on the cache read path with a non-empty cache path, a missing file  *)
(* raises no error and leads to fresh resolution; a file that cannot be    *)
(* read, or that is present and does not decode, fails the call with that  *)
(* error, and the call performs no fresh resolution.                       *)
(***************************************************************************)
C8_CacheReadErrors ==
    /\ [][\A p \in Procs :
            pc[p] = "start" /\ pc'[p] # "start" /\ cachePath[p] # "" =>
                CASE cacheFile.state = "absent" ->
                       pc'[p] = "lock" /\ result'[p] = NoResult
                  [] cacheFile.state = "unreadable" ->
                       pc'[p] = "done" /\ result'[p] = Failed([kind |-> "read"])
                  [] cacheFile.state = "present" /\ ~cacheFile.bytes.wellFormed ->
                       pc'[p] = "done" /\ result'[p] = Failed([kind |-> "unmarshal"])
                  [] OTHER -> TRUE]_vars
    /\ [](\A p \in Procs :
            result[p].err.kind \in {"read", "unmarshal"} =>
                /\ pc[p] = "done"
                /\ did[p] = {}
                /\ attempted[p] = <<>>
                /\ plugins[p] = EmptyMap
                /\ result[p].tasks = <<>>)

\* a call on a cache file that does not decode has returned
C8_Witness ==
    \E p \in Procs :
        /\ pc[p] = "done"
        /\ cachePath[p] # ""
        /\ cacheFile.state = "present" /\ ~cacheFile.bytes.wellFormed
        /\ result[p].err.kind = "unmarshal"

(***************************************************************************)
(* C9: when the cache file exists and decodes, loadPluginsTasks uses the   *)
(* decoded set as the resolved set: it does not acquire the resolver lock, *)
(* invokes no resolver and no info-query, does not run the compatibility   *)
(* verification and does not write the cache file.                         *)
(***************************************************************************)
C9_CacheHit ==
    \A p \in Procs :
        "hit" \in did[p] =>
            /\ did[p] = {"hit"}
            /\ pc[p] \in {"aggregate", "done"}
            /\ lockHolder # p
            /\ attempted[p] = <<>>
            /\ cacheFile.state = "present"
            /\ plugins[p] = unmarshalPluginsInfoJSON(cacheFile.bytes)
            /\ pc[p] = "done" =>
                  /\ result[p].err = Nil
                  /\ {result[p].tasks[i].PluginExecPath : i \in DOMAIN result[p].tasks}
                        = {k \in DOMAIN plugins[p] : plugins[p][k].PluginInfo.Tasks # <<>>}

\* a call that found a valid cache file has returned its tasks, though its
\* declarations name other plugins than the cached set
C9_Witness ==
    \E p \in Procs :
        /\ "hit" \in did[p]
        /\ pc[p] = "done"
        /\ pluginsParam[p] # <<>>
        /\ \A i \in DOMAIN pluginsParam[p] : pluginsParam[p][i].Locator \notin DOMAIN plugins[p]

(***************************************************************************)
(* C10: if a declaration fails resolution, loadPluginsTasks called with a  *)
(* cache path whose file is absent returns the aggregated error and no     *)
(* tasks and never writes the cache file; with three declarations of which *)
(* only the second fails, the error names the locator of the second and no *)
(* other, and no cache file exists afterwards.                             *)
(***************************************************************************)
C10_NoCacheOnFailure ==
    \A p \in Procs :
        cachePath[p] # "" /\ "miss" \in did[p] /\ FailedAt(p) # {} =>
            /\ pc[p] \notin {"verify", "aggregate", "crashed"} \cup WritePhase
            /\ did[p] \cap {"verify", "temp", "write"} = {}
            /\ cacheFile = AbsentFile
            /\ pc[p] = "done" =>
                  /\ result[p].err.kind = "resolve"
                  /\ result[p].tasks = <<>>
                  /\ result[p].upgradeConfigTasks = <<>>
                  /\ (Len(outcomes[p]) = 3 /\ FailedAt(p) = {2}) =>
                        [i \in DOMAIN result[p].err.lines |-> result[p].err.lines[i].loc]
                            = <<pluginsParam[p][2].Locator>>

\* three declarations of three plugins, the second failed, the call has returned
C10_Witness ==
    \E p \in Procs :
        /\ cachePath[p] # ""
        /\ "miss" \in did[p]
        /\ pc[p] = "done"
        /\ Len(outcomes[p]) = 3
        /\ FailedAt(p) = {2}
        /\ Cardinality(Range(attempted[p])) = 3
        /\ Len(result[p].err.lines) = 1

(***************************************************************************)
(* C11: the compatibility verification runs only after every declaration   *)
(* resolved successfully, and its failure is terminal: when the resolved   *)
(* set holds a conflicting pair no task aggregation takes place, no tasks  *)
(* are returned and the cache file is not written.                         *)
(***************************************************************************)
C11_VerifyTerminal ==
    \A p \in Procs :
        Verified(p) =>
            /\ Len(outcomes[p]) = Len(pluginsParam[p])
            /\ FailedAt(p) = {}
            /\ DOMAIN pluginErrors[p] = {}
            /\ lockHolder # p
            /\ (\E a, b \in DOMAIN plugins[p] : Conflicting(plugins[p], a, b)) =>
                  /\ pc[p] = "done"
                  /\ result[p].err.kind = "compatibility"
                  /\ result[p].tasks = <<>>
                  /\ result[p].upgradeConfigTasks = <<>>
                  /\ did[p] \cap {"temp", "write"} = {}
                  /\ cachePath[p] # "" => cacheFile = AbsentFile

\* a call with a cache path resolved two versions of one product and has returned
C11_Witness ==
    \E p \in Procs :
        /\ Verified(p)
        /\ cachePath[p] # ""
        /\ pc[p] = "done"
        /\ {L1, L2} \subseteq DOMAIN plugins[p]
        /\ result[p].err.kind = "compatibility"

(***************************************************************************)
(* C13: every invocation of resolvePlugins that acquired the resolver lock *)
(* has released it when it returns, with the full set and with the         *)
(* aggregated error alike, so that the lock never stays held for a later   *)
(* invocation.                                                             *)
(***************************************************************************)
C13_LockReleased ==
    /\ \A p \in Procs : Returned(p) => lockHolder # p
    /\ lockHolder # 0 => InResolve(lockHolder)

\* one invocation returned the aggregated error and the other holds the lock after it
C13_Witness ==
    \E p, q \in Procs :
        /\ p # q
        /\ Returned(p)
        /\ result[p].err.kind = "resolve"
        /\ lockHolder = q
        /\ attempted[q] # <<>>

(***************************************************************************)
(* C14: if acquiring the resolver lock fails, resolvePlugins returns that  *)
(* error at once with no result: no declaration is attempted, no resolver  *)
(* and no info-query is invoked, and the plugins, assets and downloads     *)
(* directories are left unchanged.                                         *)
(***************************************************************************)
C14_LockFailure ==
    /\ [](\A p \in Procs :
            result[p].err.kind = "lock" =>
                /\ pc[p] = "done"
                /\ attempted[p] = <<>>
                /\ did[p] \cap {"lock", "resolver", "info", "verify", "temp", "write"} = {}
                /\ plugins[p] = EmptyMap
                /\ result[p].tasks = <<>>)
    /\ [][\A p \in Procs :
            result'[p].err.kind = "lock" /\ result[p].err.kind # "lock" =>
                /\ pc[p] = "lock"
                /\ UNCHANGED <<pluginsDir, assetsDir, downloadsDir, lockHolder, cacheFile>>]_vars

\* a call with declarations whose lock acquisition failed has returned
C14_Witness ==
    \E p \in Procs :
        /\ result[p].err.kind = "lock"
        /\ pc[p] = "done"
        /\ Len(pluginsParam[p]) >= 2

(***************************************************************************)
(* C15: if resolution and compatibility verification succeed and writing   *)
(* or encoding the cache file fails, loadPluginsTasks returns an error and *)
(* no tasks, though the resolved set was valid.                            *)
(***************************************************************************)
C15_CacheWriteFailure ==
    \A p \in Procs :
        result[p].err.kind \in {"marshal", "write"} =>
            /\ pc[p] = "done"
            /\ result[p].tasks = <<>>
            /\ result[p].upgradeConfigTasks = <<>>
            /\ cachePath[p] # ""
            /\ Verified(p)
            /\ FailedAt(p) = {}
            /\ \A a, b \in DOMAIN plugins[p] : ~Conflicting(plugins[p], a, b)

\* a call that resolved a plugin with tasks failed to write the cache file and has returned
C15_Witness ==
    \E p \in Procs :
        /\ result[p].err.kind = "write"
        /\ pc[p] = "done"
        /\ \E k \in DOMAIN plugins[p] : plugins[p][k].PluginInfo.Tasks # <<>>

RECURSIVE TaskCount(_, _)
TaskCount(m, S) ==
    IF S = {} THEN 0
    ELSE LET k == CHOOSE x \in S : TRUE
         IN Len(m[k].PluginInfo.Tasks) + TaskCount(m, S \ {k})

\* the number of tasks of the locators that sort before k
TaskOffset(m, k) == TaskCount(m, {j \in DOMAIN m : LocLess(j, k)})

C18_AtomicReplace ==
    /\ [](/\ cacheFile = AbsentFile \/
              /\ cacheFile.state = "present"
              /\ cacheFile.bytes.wellFormed
              /\ \E p \in Procs :
                    /\ "write" \in did[p]
                    /\ cacheFile.bytes = marshalPluginsInfoJSON(plugins[p])
          /\ \A q \in Procs : result[q].err.kind \notin {"read", "unmarshal"})
    /\ [][cacheFile' # cacheFile =>
             \E p \in Procs : /\ pc[p] = "rename"
                              /\ tmpFile(p).bytes.wellFormed
                              /\ cacheFile' = tmpFile(p)]_vars

\* one writer died with its temporary file half written, the other replaced the cache file
C18_Witness ==
    \E p, q \in Procs :
        /\ pc[p] = "crashed"
        /\ "temp" \in did[p]
        /\ "write" \in did[q]
        /\ cacheFile.state = "present"

(***************************************************************************)
(* C19: the lock acquisition blocks.  An invocation at Lock() leaves it    *)
(* only by taking a free lock and entering its own resolution pass (or     *)
(* with an error of the lock operation itself), never while another holds  *)
(* the lock; and under a fair scheduler, with every holder going on to its *)
(* return, every invocation waiting at Lock() eventually acquires the lock *)
(* and completes its resolution pass.                                      *)
(***************************************************************************)
C19_BlockingLock ==
    /\ [][\A p \in Procs :
            pc[p] = "lock" /\ pc'[p] # "lock" =>
                \/ /\ lockHolder = 0
                   /\ lockHolder' = p
                   /\ InResolve(p)'
                \/ /\ result'[p].err.kind = "lock"
                   /\ pc'[p] = "done"]_vars
    /\ \A p \in Procs :
          (pc[p] = "lock") ~> (Returned(p) \/ result[p].err.kind = "lock")

\* an invocation is at Lock() while the other one, in the middle of its pass, holds the lock
C19_Witness ==
    \E p, q \in Procs :
        /\ p # q
        /\ pc[p] = "lock"
        /\ lockHolder = q
        /\ pc[q] = "info"
        /\ pluginsParam[p] # <<>>

(***************************************************************************)
(* C20: a successful run of the license task without --verify and without  *)
(* --remove leaves the configured header at the top of every .go file of   *)
(* the project directory that neither the plugin configuration nor the     *)
(* excludes of the godel configuration exclude, the rest of the file as it *)
(* was, and leaves every other file unchanged.                             *)
(***************************************************************************)
\* the file content below the header
Body(content) == IF HasHeader(content) THEN Tail(content) ELSE content

\* what the godel configuration given to the run excludes
GodelExcluded(path) == godelConfigFileFlagVal # "" /\ Excludes(godelYML, path)

\* the run has put the header on the files in scope and has left the others alone
HeaderAppliedToProject ==
    \A f \in ProjectPaths :
        IF f.ext = "go" /\ ~Excludes(projectCfg, f) /\ ~GodelExcluded(f)
        THEN HasHeader(files'[f]) /\ Body(files'[f]) = Body(files[f])
        ELSE files'[f] = files[f]

C20_HeaderApplied ==
    [][exit = "none" /\ exit' = "ok" /\ ~verifyFlagVal /\ ~removeFlagVal
          => HeaderAppliedToProject]_vars

\* the claim as stated, for every run without --verify
C20_AnyRunWithoutVerify ==
    [][exit = "none" /\ exit' = "ok" /\ ~verifyFlagVal => HeaderAppliedToProject]_vars

\* a run with both configurations' excludes: foo.go got its header, the files under
\* vendor, godel and gen did not
C20_Witness ==
    /\ exit = "ok"
    /\ ~verifyFlagVal /\ ~removeFlagVal
    /\ godelConfigFileFlagVal # ""
    /\ "gen" \in projectCfg.names
    /\ files[FooGo] = <<Header, "package">>
    /\ files[VendorBarGo] = <<"package">>
    /\ files[GodelScript] = <<"package">>
    /\ files[GenBazGo] = <<"package">>
    /\ files[ReadMe] = <<"package">>

(***************************************************************************)
(* C21: per ordered pair the checks of verifySinglePluginCompatibility are *)
(* taken in the order duplicate product, configuration collision, task     *)
(* names, and the first that matches gives the pair its only reason: a     *)
(* pair with the same group and product carries the version reason even if *)
(* it also shares task names, a pair with a configuration collision        *)
(* carries the configuration reason even if it also shares task names, and *)
(* the task reason is left to the pairs that meet neither of the two.      *)
(***************************************************************************)
C21_FirstMatchWins ==
    \A p \in Procs :
        Verified(p) =>
            \A a, b \in DOMAIN plugins[p] :
                a # b =>
                    LET r == Reason(p, a, b) IN
                    /\ SameProduct(a, b) => r = DifferentVersion
                    /\ ConfigCollision(plugins[p], a, b) => r = SameNameConfig
                    /\ r.msg = "provides conflicting tasks" =>
                          /\ ~SameProduct(a, b)
                          /\ ~ConfigCollision(plugins[p], a, b)
                          /\ r.tasks # <<>>
                    /\ r.msg # "provides conflicting tasks" => r.tasks = <<>>

\* two versions of one product and a third plugin of the same product name in another
\* group, all using configuration and all providing the same task
C21_Witness ==
    \E p \in Procs :
        /\ Verified(p)
        /\ \E a, b, c \in DOMAIN plugins[p] :
              /\ SameProduct(a, b) /\ a # b
              /\ ConfigCollision(plugins[p], a, c)
              /\ TaskCollision(plugins[p], a, b)
              /\ TaskCollision(plugins[p], a, c)
              /\ Reason(p, a, b) = DifferentVersion
              /\ Reason(p, a, c) = SameNameConfig

(***************************************************************************)
(* C22: per declaration the steps of resolvePlugins follow one another:    *)
(* the info command is invoked only on an executable that is in the        *)
(* plugins directory and has passed the checksum step, the assets are      *)
(* resolved only after the info command answered, and a locator becomes a  *)
(* key of the map only with that answer and with its assets resolved; so   *)
(* every key of a returned set was resolved, verified, queried and given   *)
(* its assets.                                                             *)
(***************************************************************************)
C22_StepOrder ==
    /\ [][\A p \in Procs :
            LET loc == currPlugin(p).Locator IN
            /\ pc'[p] = "info" /\ pc[p] # "info" =>
                  /\ pc[p] = "checksum"
                  /\ loc \in pluginsDir
            /\ pc'[p] = "checksum" /\ pc[p] # "checksum" =>
                  /\ pc[p] = "resolve"
                  /\ loc \in pluginsDir'
            /\ pc'[p] = "assets" /\ pc[p] # "assets" =>
                  /\ pc[p] = "info"
                  /\ "info" \in did'[p]
                  /\ info'[p] = InfoFromPlugin(loc)
            /\ InResolve(p) /\ pc[p] # "return" /\ plugins'[p] # plugins[p] =>
                  /\ pc[p] = "assets"
                  /\ DOMAIN plugins'[p] = DOMAIN plugins[p] \cup {loc}
                  /\ plugins'[p][loc].PluginInfo = InfoFromPlugin(loc)
                  /\ Range(plugins'[p][loc].Assets) \subseteq assetsDir'
                  /\ \A k \in DOMAIN plugins[p] \ {loc} : plugins'[p][k] = plugins[p][k]]_vars
    /\ [](\A p \in Procs :
            Returned(p) /\ FailedAt(p) = {} =>
                \A k \in DOMAIN plugins[p] :
                    /\ k \in pluginsDir
                    /\ Range(plugins[p][k].Assets) \subseteq assetsDir
                    /\ plugins[p][k].PluginInfo = InfoFromPlugin(k)
                    /\ \E i \in DOMAIN attempted[p] :
                          attempted[p][i] = k /\ outcomes[p][i] = "ok")

\* a returned set with a plugin that was downloaded, has a declared checksum and has an asset
C22_Witness ==
    \E p \in Procs :
        /\ Returned(p)
        /\ FailedAt(p) = {}
        /\ "resolver" \in did[p]
        /\ L3 \in DOMAIN plugins[p]
        /\ plugins[p][L3].Assets = <<A1>>
        /\ A1 \in assetsDir

(***************************************************************************)
(* C23: a plugin or an asset is resolved only when its file is not in its  *)
(* directory already.  The resolution of a plugin then uses the custom     *)
(* resolver of the declaration alone if there is one, and otherwise the    *)
(* default resolvers in their order up to the first that succeeds; the     *)
(* declaration fails resolution only if none of the resolvers tried        *)
(* succeeded.                                                              *)
(***************************************************************************)
\* the resolvers the declaration may use, in the order of their use
ResolversOf(declaration) ==
    IF declaration.Resolver # "" THEN <<declaration.Resolver>> ELSE DefaultResolvers

C24_UpgradeConfigTasks ==
    \A p \in Procs :
        pc[p] = "done" /\ result[p].err = Nil =>
            LET m == plugins[p]
                u == result[p].upgradeConfigTasks
                upgrading == {k \in DOMAIN m : m[k].PluginInfo.Upgrade}
            IN /\ Len(u) = Cardinality(upgrading)
               /\ {u[i].PluginExecPath : i \in DOMAIN u} = upgrading
               /\ \A i, j \in DOMAIN u :
                     i < j => LocLess(u[i].PluginExecPath, u[j].PluginExecPath)
               /\ \A i \in DOMAIN u : u[i].AssetPaths = m[u[i].PluginExecPath].Assets
               /\ Len(result[p].tasks) = TaskCount(m, DOMAIN m)

\* three plugins with tasks, two of them with a config-upgrade task
C24_Witness ==
    \E p \in Procs :
        /\ pc[p] = "done"
        /\ result[p].err = Nil
        /\ DOMAIN plugins[p] = {L1, L2, L3}
        /\ Len(result[p].upgradeConfigTasks) = 2
        /\ result[p].upgradeConfigTasks[1].PluginExecPath = L1
        /\ result[p].upgradeConfigTasks[2].PluginExecPath = L2
        /\ ~plugins[p][L3].PluginInfo.Upgrade
        /\ Len(result[p].tasks) = 4

(***************************************************************************)
(* C25: the conflict report of verifyPluginCompatibility is symmetric: b   *)
(* is a conflicting partner of a exactly if a is one of b, with the same   *)
(* kind of reason; so the number in the header counts the offending        *)
(* locators, each of which has a partner in the report, and is never 1.    *)
(***************************************************************************)
C25_SymmetricReport ==
    \A p \in Procs :
        Verified(p) =>
            /\ \A a, b \in DOMAIN plugins[p] :
                  /\ (b \in DOMAIN Report(p) /\ a \in DOMAIN Report(p)[b])
                        <=> (a \in DOMAIN Report(p) /\ b \in DOMAIN Report(p)[a])
                  /\ Reason(p, a, b).msg = Reason(p, b, a).msg
            /\ \A a \in DOMAIN Report(p) :
                  /\ DOMAIN Report(p)[a] # {}
                  /\ DOMAIN Report(p)[a] \subseteq DOMAIN Report(p) \ {a}
            /\ result[p].err.kind = "compatibility" =>
                  /\ result[p].err.count = Cardinality(DOMAIN Report(p))
                  /\ result[p].err.count >= 2

\* three offending locators in two conflicting pairs with different reasons, the common
\* task names of one pair differing in the two directions
C25_Witness ==
    \E p \in Procs :
        /\ Verified(p)
        /\ result[p].err.kind = "compatibility"
        /\ result[p].err.count = 3
        /\ \E a, b, c \in DOMAIN Report(p) :
              /\ Reason(p, a, b) = DifferentVersion
              /\ Reason(p, b, c).msg = "provides conflicting tasks"
              /\ Reason(p, b, c).tasks # Reason(p, c, b).tasks
              /\ Reason(p, a, c) = NoConflict

(***************************************************************************)
(* C26: on a cache hit the result of loadPluginsTasks is a function of the *)
(* content of the cache file alone: it is the aggregation of the cached    *)
(* set, the same for two calls with different declarations, and it comes   *)
(* with no error also for a cached set with mutually incompatible plugins, *)
(* since on this path neither the declarations are read nor the            *)
(* compatibility is verified.                                              *)
(***************************************************************************)
C26_HitDependsOnCacheOnly ==
    LET cached == unmarshalPluginsInfoJSON(cacheFile.bytes) IN
    /\ \A p \in Procs :
          pc[p] = "done" =>
              /\ did[p] = {"hit"}
              /\ attempted[p] = <<>>
              /\ result[p].err = Nil
              /\ Len(result[p].tasks) = TaskCount(cached, DOMAIN cached)
              /\ \A k \in DOMAIN cached : \A i \in DOMAIN cached[k].PluginInfo.Tasks :
                    result[p].tasks[TaskOffset(cached, k) + i] =
                        [Name |-> cached[k].PluginInfo.Tasks[i],
                         PluginExecPath |-> k,
                         AssetPaths |-> cached[k].Assets]
    /\ \A p, q \in Procs :
          pc[p] = "done" /\ pc[q] = "done" => result[p] = result[q]

\* two calls with different declarations, neither declaring all cached plugins, returned
\* the tasks of a cached set that holds two versions of one product
C26_Witness ==
    \E p, q \in Procs :
        /\ pc[p] = "done" /\ pc[q] = "done"
        /\ pluginsParam[p] = <<>>
        /\ pluginsParam[q] # <<>>
        /\ result[p].err = Nil
        /\ result[p].tasks # <<>>
        /\ result[p] = result[q]
        /\ Conflicting(plugins[p], L1, L2)
        /\ {L1, L2} \subseteq DOMAIN plugins[q]

(***************************************************************************)
(* C27: whenever resolvePlugins returns without error, the keys of the     *)
(* returned map are the distinct locators of the declarations: every       *)
(* declared locator is a key, no other locator is, and a locator declared  *)
(* more than once has the one entry its last declaration produced.         *)
(***************************************************************************)
\* the position of the last declaration of locator k in the list
LastDeclaration(declarations, k) ==
    CHOOSE i \in DOMAIN declarations :
        /\ declarations[i].Locator = k
        /\ \A j \in DOMAIN declarations : declarations[j].Locator = k => j <= i

C27_KeysAreDeclaredLocators ==
    \A p \in Procs :
        Returned(p) /\ DOMAIN pluginErrors[p] = {} =>
            LET declarations == pluginsParam[p] IN
            /\ DOMAIN plugins[p] = {declarations[i].Locator : i \in DOMAIN declarations}
            /\ \A k \in DOMAIN plugins[p] :
                  /\ plugins[p][k].Assets =
                        declarations[LastDeclaration(declarations, k)].Assets
                  /\ plugins[p][k].PluginInfo = InfoFromPlugin(k)

\* one locator declared twice with different assets, then another locator: two keys, the
\* first with the assets of its second declaration
C27_Witness ==
    \E p \in Procs :
        /\ Returned(p)
        /\ DOMAIN pluginErrors[p] = {}
        /\ Len(pluginsParam[p]) = 3
        /\ pluginsParam[p][1].Locator = L1 /\ pluginsParam[p][1].Assets = <<>>
        /\ pluginsParam[p][2].Locator = L1 /\ pluginsParam[p][2].Assets = <<A1>>
        /\ DOMAIN plugins[p] = {L1, L3}
        /\ plugins[p][L1].Assets = <<A1>>

====
